---------------------------- MODULE Spec2Model ----------------------------
(***************************************************************************)
(* A model of the MirrorAccent prosody engine (src/js/prosody.js) and of   *)
(* the flows that drive it (src/js/practice.js).                           *)
(*                                                                         *)
(* JavaScript numbers are modelled as extended rationals <<n, d>> in       *)
(* lowest terms with d >= 0: d > 0 is the finite number n/d, <<1, 0>> is   *)
(* +Infinity, <<-1, 0>> is -Infinity and <<0, 0>> is NaN.  Arithmetic is   *)
(* exact (no rounding to double or to Float32Array precision, no signed    *)
(* zero); the IEEE rules for NaN and the infinities are kept, because the  *)
(* code relies on them (0/0 on silent frames, Math.min() of no arguments,  *)
(* `x || 1`).                                                              *)
(***************************************************************************)
EXTENDS Integers, Sequences, FiniteSets, TLC

VARIABLES
    sampleRate,      \* ProsodyAnalyzer.sampleRate (the AudioContext's rate)
    targetAudio,     \* what the decoder yields for the target blob
    userAudio,       \* what the decoder yields for the user blob
    targetFeatures,  \* result of analyzeAudio on the target (or NoResult / Failed)
    userFeatures,    \* result of analyzeAudio on the user recording
    scores,          \* result of compareProsody (or NoResult)
    seq1,            \* first argument of a dtwSimilarity call
    seq2,            \* second argument of a dtwSimilarity call
    similarity,      \* result of that dtwSimilarity call (or NoNumber)
    feedback,        \* result of generateFeedback (or NoFeedback)
    scoreSetIds,     \* identities of the score set objects compareProsody returned
    sessionStats,    \* sessionStats of the manager / the app
    pc,              \* where each transformAndAnalyze call is suspended
    pending,         \* the blob handed to the call it is suspended in
    analyzeEnabled,  \* whether the analyze button is enabled
    rateEstimate,    \* result of an estimateSpeakingRate call (or NoResult)
    attemptLog,      \* history: the overall score of every completed attempt
    screen,          \* MirrorAccentApp.currentScreen
    analyzeLabel,    \* the text of the analyze button
    displayed,       \* the score set shown by displayResults (or NoResult)
    recorder,        \* the AudioRecorder's fields
    mediaRecorders,  \* the MediaRecorder objects created so far
    calls            \* the startRecording / stopRecording calls made so far

uiVars == <<screen, analyzeLabel, displayed>>
recVars == <<recorder, mediaRecorders, calls>>

vars == <<sampleRate, targetAudio, userAudio, targetFeatures, userFeatures,
          scores, seq1, seq2, similarity, feedback, scoreSetIds, sessionStats,
          pc, pending, analyzeEnabled, rateEstimate, attemptLog, uiVars, recVars>>

\* Absent values.  Results carry a status field so that "no result yet",
\* "the promise was rejected" and a value are all records.
NoResult == [status |-> "none"]
Failed == [status |-> "rejected"]
NoAudio == [status |-> "none"]
NoNumber == <<>>
\* generateFeedback has not returned a list (a returned list holds messages only)
NoFeedback == <<"not generated">>

---------------------------------------------------------------------------
(* Extended rational arithmetic: the model of JavaScript's Number.         *)

Abs(n) == IF n < 0 THEN -n ELSE n
Sign(n) == IF n < 0 THEN -1 ELSE IF n > 0 THEN 1 ELSE 0

RECURSIVE Gcd(_, _)
Gcd(a, b) == IF b = 0 THEN a ELSE Gcd(b, a % b)

\* the number n/d in lowest terms; d = 0 gives an infinity or NaN
Norm(n, d) ==
    IF d = 0 THEN <<Sign(n), 0>>
    ELSE IF n = 0 THEN <<0, 1>>
    ELSE LET g == Gcd(Abs(n), Abs(d))
             s == IF d < 0 THEN -1 ELSE 1
         IN  <<s * (n \div g), s * (d \div g)>>

R(n) == <<n, 1>>
NaN == <<0, 0>>
PosInf == <<1, 0>>
NegInf == <<-1, 0>>
IsNaN(a) == a = NaN
IsFinite(a) == a[2] > 0

Neg(a) == <<-a[1], a[2]>>

Add(a, b) ==
    IF IsNaN(a) \/ IsNaN(b) THEN NaN
    ELSE IF a[2] = 0 /\ b[2] = 0 THEN (IF a = b THEN a ELSE NaN)
    ELSE IF a[2] = 0 THEN a
    ELSE IF b[2] = 0 THEN b
    ELSE LET g == Gcd(a[2], b[2])
         IN  Norm(a[1] * (b[2] \div g) + b[1] * (a[2] \div g), (a[2] \div g) * b[2])

Sub(a, b) == Add(a, Neg(b))

Mul(a, b) ==
    IF IsNaN(a) \/ IsNaN(b) THEN NaN
    ELSE LET g1 == IF a[1] = 0 \/ b[2] = 0 THEN 1 ELSE Gcd(Abs(a[1]), b[2])
             g2 == IF b[1] = 0 \/ a[2] = 0 THEN 1 ELSE Gcd(Abs(b[1]), a[2])
         IN  Norm((a[1] \div g1) * (b[1] \div g2), (a[2] \div g2) * (b[2] \div g1))

Recip(a) == IF a[1] < 0 THEN <<-a[2], -a[1]>> ELSE <<a[2], a[1]>>

Div(a, b) == Mul(a, Recip(b))

\* n1/d1 < n2/d2 for d1, d2 > 0, by integer parts and then the reciprocals of
\* the fractional parts (no product is formed, so none overflows)
RECURSIVE LessFrac(_, _, _, _)
LessFrac(n1, d1, n2, d2) ==
    LET q1 == n1 \div d1
        q2 == n2 \div d2
        r1 == n1 - q1 * d1
        r2 == n2 - q2 * d2
    IN  IF q1 # q2 THEN q1 < q2
        ELSE IF r2 = 0 THEN FALSE
        ELSE IF r1 = 0 THEN TRUE
        ELSE LessFrac(d2, r2, d1, r1)

\* a < b as JavaScript evaluates it: false when either side is NaN
Less(a, b) ==
    /\ ~IsNaN(a)
    /\ ~IsNaN(b)
    /\ a # b
    /\ IF a[2] = 0 THEN a = NegInf
       ELSE IF b[2] = 0 THEN b = PosInf
       ELSE LessFrac(a[1], a[2], b[1], b[2])

Leq(a, b) == ~IsNaN(a) /\ ~IsNaN(b) /\ (a = b \/ Less(a, b))

MathAbs(a) == <<Abs(a[1]), a[2]>>

\* Math.min / Math.max of two numbers: NaN if either is NaN
Min2(a, b) == IF IsNaN(a) \/ IsNaN(b) THEN NaN ELSE IF Less(b, a) THEN b ELSE a
Max2(a, b) == IF IsNaN(a) \/ IsNaN(b) THEN NaN ELSE IF Less(a, b) THEN b ELSE a

\* for (i = lo; i <= hi; i++) acc = Step(acc, i), evaluated by halving the
\* index range so that the evaluation depth stays logarithmic
RECURSIVE Iterate(_, _, _, _)
Iterate(Step(_, _), acc, lo, hi) ==
    IF lo > hi THEN acc
    ELSE IF lo = hi THEN Step(acc, lo)
    ELSE LET mid == (lo + hi) \div 2
             left == Iterate(Step, acc, lo, mid)
         IN  IF left = left THEN Iterate(Step, left, mid + 1, hi) ELSE left

\* Math.min(...arr) / Math.max(...arr); of no arguments +Infinity / -Infinity
MathMin(arr) == Iterate(LAMBDA acc, i : Min2(acc, arr[i]), PosInf, 1, Len(arr))
MathMax(arr) == Iterate(LAMBDA acc, i : Max2(acc, arr[i]), NegInf, 1, Len(arr))

\* Math.floor of a finite number
Floor(a) == a[1] \div a[2]

\* JavaScript's `x || y` on numbers: y when x is 0 or NaN
OrElse(x, y) == IF x = R(0) \/ IsNaN(x) THEN y ELSE x

InUnit(a) == Leq(R(0), a) /\ Leq(a, R(1))

---------------------------------------------------------------------------
(* Small helpers of ProsodyAnalyzer.                                       *)

\* a sequence given as a function on 1..n, as the tuple of its values (every
\* element computed once)
Tuple(f) == f \o <<>>

\* arr.reduce((a, b) => a + b, 0)
Sum(arr) == Iterate(LAMBDA acc, i : Add(acc, arr[i]), R(0), 1, Len(arr))

\* mean(arr): 0 for the empty array
Mean(arr) == IF Len(arr) = 0 THEN R(0) ELSE Div(Sum(arr), R(Len(arr)))

\* arr.filter(v => v > 0)
Positive(arr) == SelectSeq(arr, LAMBDA v : Less(R(0), v))

\* resample(arr, targetLen): linear interpolation, the array itself when the
\* length already fits
Resample(arr, targetLen) ==
    IF Len(arr) = targetLen THEN arr
    ELSE LET ratio == Norm(Len(arr), targetLen)
         IN  Tuple([k \in 1..targetLen |->
                LET srcIdx == Mul(R(k - 1), ratio)
                    lower == Floor(srcIdx)
                    upper == IF lower + 1 < Len(arr) - 1 THEN lower + 1 ELSE Len(arr) - 1
                    frac == Sub(srcIdx, R(lower))
                IN  Add(Mul(arr[lower + 1], Sub(R(1), frac)), Mul(arr[upper + 1], frac))])

\* normalize without the `|| 1` fallback for a zero range
NormalizeNoFallback(arr) ==
    LET min == MathMin(arr)
        max == MathMax(arr)
    IN  Tuple([k \in 1..Len(arr) |-> Div(Sub(arr[k], min), Sub(max, min))])

\* normalize that subtracts the minimum and leaves the range as it is
NormalizeOffsetOnly(arr) ==
    LET min == MathMin(arr)
    IN  Tuple([k \in 1..Len(arr) |-> Sub(arr[k], min)])

\* normalize(arr): min-max scaling, a zero (or NaN) range counted as 1
Normalize(arr) ==
    LET min == MathMin(arr)
        max == MathMax(arr)
        range == OrElse(Sub(max, min), R(1))
    IN  Tuple([k \in 1..Len(arr) |-> Div(Sub(arr[k], min), range)])

---------------------------------------------------------------------------
(* dtwSimilarity.  Row i of the matrix is the sequence dtw[i][0..m], kept  *)
(* at indices 1..m+1.                                                      *)

ResampleCap == 100

\* dtw[0]: 0 followed by m infinities
DtwRow0(m) == Tuple([j \in 1..(m + 1) |-> IF j = 1 THEN R(0) ELSE PosInf])

\* the cell without its diagonal neighbour
DtwCellNoDiagonal(a, b, up, left, diag) == Add(MathAbs(Sub(a, b)), Min2(up, left))

\* the cell with the squared difference as its cost
DtwCellSquaredCost(a, b, up, left, diag) ==
    Add(Mul(Sub(a, b), Sub(a, b)), Min2(Min2(up, left), diag))

\* dtw[i][j] = cost + Math.min(dtw[i-1][j], dtw[i][j-1], dtw[i-1][j-1])
DtwCell(a, b, up, left, diag) == Add(MathAbs(Sub(a, b)), Min2(Min2(up, left), diag))

\* dtw[i] from dtw[i-1]; dtw[i][0] stays Infinity
DtwRow(a, ns2, prev) ==
    Iterate(LAMBDA row, j : Append(row, DtwCell(a, ns2[j], prev[j + 1], row[j], prev[j])),
            <<PosInf>>, 1, Len(ns2))

\* dtw[n][m] for the normalized sequences
DtwCost(ns1, ns2) ==
    Iterate(LAMBDA prev, i : DtwRow(ns1[i], ns2, prev),
            DtwRow0(Len(ns2)), 1, Len(ns1))[Len(ns2) + 1]

\* the similarity without the scaling by maxDist
ToSimilarityUnscaled(cost, maxDist) == Sub(R(1), cost)

\* dtwSimilarity with the empty case counted as a perfect match
DtwSimilarityEmptyAsOne(s1, s2) ==
    IF Len(s1) = 0 \/ Len(s2) = 0 THEN R(1)
    ELSE LET n == IF Len(s1) < ResampleCap THEN Len(s1) ELSE ResampleCap
             m == IF Len(s2) < ResampleCap THEN Len(s2) ELSE ResampleCap
         IN  Sub(R(1), Min2(R(1), Div(DtwCost(Normalize(Resample(s1, n)),
                                              Normalize(Resample(s2, m))),
                                      R(IF n > m THEN n ELSE m))))

\* similarity = 1 - Math.min(1, dtw[n][m] / maxDist)
ToSimilarity(cost, maxDist) == Sub(R(1), Min2(R(1), Div(cost, R(maxDist))))

DtwSimilarity(s1, s2) ==
    IF Len(s1) = 0 \/ Len(s2) = 0 THEN R(0)
    ELSE LET n == IF Len(s1) < ResampleCap THEN Len(s1) ELSE ResampleCap
             m == IF Len(s2) < ResampleCap THEN Len(s2) ELSE ResampleCap
             ns1 == Normalize(Resample(s1, n))
             ns2 == Normalize(Resample(s2, m))
         IN  ToSimilarity(DtwCost(ns1, ns2), IF n > m THEN n ELSE m)

---------------------------------------------------------------------------
(* Framing and the YIN pitch tracker.  Samples are integers (the model's   *)
(* buffers hold only the amplitudes -1, 0 and 1), so the difference        *)
(* function is an integer and the CMNDF an exact rational.                 *)

\* Math.floor(sampleRate * 0.025) and Math.floor(sampleRate * 0.010)
FrameSizeOf(sr) == (sr * 25) \div 1000
HopSizeOf(sr) == (sr * 10) \div 1000

\* the frame starts of  for (i = 0; i + frameSize < length; i += hopSize)
FrameLoop(length, frameSize, hopSize) ==
    LET count == IF length > frameSize
                 THEN ((length - frameSize - 1) \div hopSize) + 1 ELSE 0
    IN  Tuple([k \in 1..count |-> (k - 1) * hopSize])

\* samples.slice(i, i + frameSize)
Slice(samples, i, j) == SubSeq(samples, i + 1, j)

\* diff[tau] = sum over i < n - tau of (frame[i] - frame[i + tau])^2
YinDiff(frame, tau) ==
    Iterate(LAMBDA sum, i : sum + (frame[i] - frame[i + tau]) * (frame[i] - frame[i + tau]),
            0, 1, Len(frame) - tau)

\* the running sums of diff[1..maxLag-1]
YinRunningSums(diff) ==
    Iterate(LAMBDA acc, tau : Append(acc, (IF tau = 1 THEN 0 ELSE acc[tau - 1]) + diff[tau]),
            <<>>, 1, Len(diff))

\* cmndf[1..maxLag-1]; cmndf[tau] = diff[tau] / (runningSum / tau)
YinCmndf(frame, maxLag) ==
    LET diff == Tuple([tau \in 1..(maxLag - 1) |-> YinDiff(frame, tau)])
        sums == YinRunningSums(diff)
    IN  Tuple([tau \in 1..(maxLag - 1) |->
                 Div(R(diff[tau]), Div(R(sums[tau]), R(tau)))])

\* cmndf[tau] with cmndf[0] = 1
CmndfAt(cmndf, tau) == IF tau = 0 THEN R(1) ELSE cmndf[tau]

YinThreshold == <<1, 10>>

\* the search with the threshold test written as !(cmndf[tau] >= threshold)
YinSearchNegated(cmndf, minLag, maxLag) ==
    LET below == {t \in minLag..(maxLag - 2) : ~Leq(YinThreshold, cmndf[t])}
    IN  IF below = {} THEN (IF minLag > maxLag - 1 THEN minLag ELSE maxLag - 1)
        ELSE LET first == CHOOSE t \in below : \A u \in below : t <= u
                 stops == {t \in first..(maxLag - 1) :
                             ~(t + 1 < maxLag /\ Less(cmndf[t + 1], cmndf[t]))}
             IN  CHOOSE t \in stops : \A u \in stops : t <= u

\* the value of tau when the search loop ends: the first lag from minLag on
\* that is below the threshold, moved on while the next lag is lower still;
\* without such a lag, the lag at which the loop gives up
YinSearch(cmndf, minLag, maxLag) ==
    LET below == {t \in minLag..(maxLag - 2) : Less(cmndf[t], YinThreshold)}
    IN  IF below = {} THEN (IF minLag > maxLag - 1 THEN minLag ELSE maxLag - 1)
        ELSE LET first == CHOOSE t \in below : \A u \in below : t <= u
                 stops == {t \in first..(maxLag - 1) :
                             ~(t + 1 < maxLag /\ Less(cmndf[t + 1], cmndf[t]))}
             IN  CHOOSE t \in stops : \A u \in stops : t <= u

\* yinPitchDetection(frame, sampleRate, minLag, maxLag)
YinPitchDetection(frame, sr, minLag, maxLag) ==
    LET cmndf == YinCmndf(frame, maxLag)
        tau == YinSearch(cmndf, minLag, maxLag)
    IN  IF tau >= maxLag - 1 \/ Leq(YinThreshold, cmndf[tau]) THEN R(0)
        ELSE LET s0 == CmndfAt(cmndf, tau - 1)
                 s1 == cmndf[tau]
                 s2 == cmndf[tau + 1]
                 betterTau ==
                     Add(R(tau), Div(Sub(s2, s0),
                                     Mul(R(2), Sub(Sub(Mul(R(2), s1), s2), s0))))
             IN  Div(R(sr), betterTau)

MinF0 == 50
MaxF0 == 400

\* extractF0Contour(samples, sampleRate)
F0FrameStarts(length, sr) == FrameLoop(length, FrameSizeOf(sr), HopSizeOf(sr))

ExtractF0Contour(samples, sr) ==
    LET starts == F0FrameStarts(Len(samples), sr)
        minLag == sr \div MaxF0
        maxLag == sr \div MinF0
    IN  [values |-> Tuple([k \in 1..Len(starts) |->
                      YinPitchDetection(Slice(samples, starts[k], starts[k] + FrameSizeOf(sr)),
                                        sr, minLag, maxLag)]),
         times |-> Tuple([k \in 1..Len(starts) |-> Norm(starts[k], sr)]),
         frameRate |-> R(100)]

---------------------------------------------------------------------------
(* Formants and intensity.  The window, the LPC solve, the Durand-Kerner   *)
(* iteration, Math.atan2, Math.log and Math.log10 have no rational model:  *)
(* a decoded recording carries, next to its samples, the values these      *)
(* computations yield on its frames (tables `roots` and `db`, read         *)
(* cyclically by frame index).  What is exact is kept exact: on a silent   *)
(* frame the autocorrelation is 0, so every LPC coefficient and every root *)
(* is NaN, and the intensity is 20 * log10(1e-10) = -200.                  *)

LpcOrder == 12

Cycle(table, k) == table[((k - 1) % Len(table)) + 1]

IsSilent(frame) == \A i \in 1..Len(frame) : frame[i] = 0

\* a root of the LPC polynomial, as lpcToFormants reads it: whether its
\* imaginary part is positive, and the frequency and bandwidth derived from it
NaNRoot == [imagPositive |-> FALSE, freq |-> NaN, bandwidth |-> NaN]

\* findPolynomialRoots(levinson(autocorrelation(preEmphasis(window(frame)))))
LpcRoots(audio, frame, k) ==
    IF IsSilent(frame) THEN [r \in 1..LpcOrder |-> NaNRoot] ELSE Cycle(audio.roots, k)

MinFormantHz == 200
MaxFormantHz == 5000
MaxBandwidthHz == 500

\* roots.filter: imag > 0, 200 < freq < 5000, bandwidth < 500
IsFormantCandidate(root) ==
    /\ root.imagPositive
    /\ Less(R(MinFormantHz), root.freq)
    /\ Less(root.freq, R(MaxFormantHz))
    /\ Less(root.bandwidth, R(MaxBandwidthHz))

\* formants.sort((a, b) => a.freq - b.freq): insertion into a sorted prefix
\* (stable, as Array.prototype.sort is)
InsertByFreq(sorted, f) ==
    LET after == {j \in 1..Len(sorted) : Less(f.freq, sorted[j].freq)}
        at == IF after = {} THEN Len(sorted) + 1
              ELSE CHOOSE j \in after : \A u \in after : j <= u
    IN  SubSeq(sorted, 1, at - 1) \o <<f>> \o SubSeq(sorted, at, Len(sorted))

SortByFreq(formants) ==
    Iterate(LAMBDA sorted, j : InsertByFreq(sorted, formants[j]), <<>>, 1, Len(formants))

\* lpcToFormants without the sort: the first three candidates in root order
LpcToFormantsUnsorted(roots) ==
    LET kept == SelectSeq(Tuple(roots), IsFormantCandidate)
        first3 == SubSeq(kept, 1, IF Len(kept) < 3 THEN Len(kept) ELSE 3)
    IN  Tuple([j \in 1..Len(first3) |-> first3[j].freq])

\* lpcToFormants(lpcCoeffs, sampleRate): the first three candidate frequencies
LpcToFormants(roots) ==
    LET sorted == SortByFreq(SelectSeq(Tuple(roots), IsFormantCandidate))
        first3 == SubSeq(sorted, 1, IF Len(sorted) < 3 THEN Len(sorted) ELSE 3)
    IN  Tuple([j \in 1..Len(first3) |-> first3[j].freq])

\* formants[slot] || 0
FormantSlot(formants, slot) ==
    IF slot <= Len(formants) THEN OrElse(formants[slot], R(0)) ELSE R(0)

FormantFrameStarts(length, sr) == FrameLoop(length, FrameSizeOf(sr), HopSizeOf(sr))

FormantSeries(values) == [values |-> values, mean |-> Mean(Positive(values))]

\* extractFormants(samples, sampleRate)
ExtractFormants(audio, sr) ==
    LET starts == FormantFrameStarts(Len(audio.samples), sr)
        perFrame == Tuple([k \in 1..Len(starts) |->
            LpcToFormants(LpcRoots(audio,
                Slice(audio.samples, starts[k], starts[k] + FrameSizeOf(sr)), k))])
        slot(j) == Tuple([k \in 1..Len(starts) |-> FormantSlot(perFrame[k], j)])
    IN  [f1 |-> FormantSeries(slot(1)),
         f2 |-> FormantSeries(slot(2)),
         f3 |-> FormantSeries(slot(3)),
         times |-> Tuple([k \in 1..Len(starts) |-> Norm(starts[k], sr)])]

SilenceDb == -200

\* 20 * Math.log10(Math.sqrt(sum / frame.length) + 1e-10)
FrameDb(audio, frame, k) ==
    IF IsSilent(frame) THEN R(SilenceDb) ELSE Cycle(audio.db, k)

\* the intensity loop with  i + frameSize <= length
IntensityFrameStartsInclusive(length, sr) ==
    FrameLoop(length + 1, FrameSizeOf(sr), HopSizeOf(sr))

IntensityFrameStarts(length, sr) == FrameLoop(length, FrameSizeOf(sr), HopSizeOf(sr))

\* extractIntensity(samples, sampleRate)
ExtractIntensity(audio, sr) ==
    LET starts == IntensityFrameStarts(Len(audio.samples), sr)
        values == Tuple([k \in 1..Len(starts) |->
            FrameDb(audio, Slice(audio.samples, starts[k], starts[k] + FrameSizeOf(sr)), k)])
    IN  [values |-> values,
         times |-> Tuple([k \in 1..Len(starts) |-> Norm(starts[k], sr)]),
         mean |-> Mean(values),
         range |-> Sub(MathMax(values), MathMin(values))]

\* movingAverage(arr, windowSize)
MovingAverage(arr, windowSize) ==
    Tuple([k \in 1..Len(arr) |->
        LET i == k - 1
            start == IF i - (windowSize \div 2) > 0 THEN i - (windowSize \div 2) ELSE 0
            stop == IF i + ((windowSize + 1) \div 2) < Len(arr)
                    THEN i + ((windowSize + 1) \div 2) ELSE Len(arr)
        IN  Mean(Slice(arr, start, stop))])

SmoothingWindow == 5

\* the peaks without the comparison with the mean intensity
SyllablePeaksNoMeanTest(values, mean) ==
    LET smoothed == MovingAverage(values, SmoothingWindow)
    IN  {i \in 1..(Len(smoothed) - 2) :
            /\ Less(smoothed[i], smoothed[i + 1])
            /\ Less(smoothed[i + 2], smoothed[i + 1])}

\* the peaks of estimateSpeakingRate: interior indices (0-based) where the
\* smoothed envelope tops both neighbours and the mean intensity
SyllablePeaks(values, mean) ==
    LET smoothed == MovingAverage(values, SmoothingWindow)
    IN  {i \in 1..(Len(smoothed) - 2) :
            /\ Less(smoothed[i], smoothed[i + 1])
            /\ Less(smoothed[i + 2], smoothed[i + 1])
            /\ Less(mean, smoothed[i + 1])}

\* estimateSpeakingRate(samples, sampleRate)
EstimateSpeakingRate(audio, sr) ==
    LET intensity == ExtractIntensity(audio, sr)
        peaks == Cardinality(SyllablePeaks(intensity.values, intensity.mean))
        duration == Norm(Len(audio.samples), sr)
    IN  [syllablesPerSecond |-> Div(R(peaks), duration),
         estimatedSyllables |-> peaks,
         duration |-> duration]

\* calculateVariance(arr)
CalculateVariance(arr) ==
    LET m == Mean(arr)
    IN  Div(Iterate(LAMBDA sum, i : Add(sum, Mul(Sub(arr[i], m), Sub(arr[i], m))),
                    R(0), 1, Len(arr)),
            R(Len(arr)))

NoPitchRange == [present |-> FALSE]

\* the pitch range with min and max taken over all frames, unvoiced ones
\* included
PitchRangeOfAllFrames(f0Values) ==
    LET validF0 == Positive(f0Values)
    IN  IF Len(validF0) > 0
        THEN [present |-> TRUE,
              min |-> MathMin(f0Values),
              max |-> MathMax(f0Values),
              mean |-> Div(Sum(validF0), R(Len(validF0))),
              variance |-> CalculateVariance(validF0)]
        ELSE NoPitchRange

\* the pitch range analyzeAudio derives from the voiced F0 values
PitchRangeOf(f0Values) ==
    LET validF0 == Positive(f0Values)
    IN  IF Len(validF0) > 0
        THEN [present |-> TRUE,
              min |-> MathMin(validF0),
              max |-> MathMax(validF0),
              mean |-> Div(Sum(validF0), R(Len(validF0))),
              variance |-> CalculateVariance(validF0)]
        ELSE NoPitchRange

\* analyzeAudio(audioBlob): the decoder's rejection is passed on; any decoded
\* buffer, whatever its length, is analysed
AnalyzeAudio(audio, sr) ==
    IF audio.status # "decoded" THEN Failed
    ELSE LET f0 == ExtractF0Contour(audio.samples, sr)
         IN  [status |-> "ok",
              f0 |-> f0,
              formants |-> ExtractFormants(audio, sr),
              intensity |-> ExtractIntensity(audio, sr),
              duration |-> Norm(Len(audio.samples), sr),
              speakingRate |-> EstimateSpeakingRate(audio, sr),
              pitchRange |-> PitchRangeOf(f0.values)]

---------------------------------------------------------------------------
(* compareProsody.                                                         *)

\* scores.f0: DTW over the voiced F0 values
F0Score(t, u) == DtwSimilarity(Positive(t.f0.values), Positive(u.f0.values))

F1Spread == 500
F2Spread == 800

\* the formant score without the Math.min(1, ...) clamps
FormantsScoreUnclamped(t, u) ==
    Div(Add(Sub(R(1), Div(MathAbs(Sub(t.formants.f1.mean, u.formants.f1.mean)), R(F1Spread))),
            Sub(R(1), Div(MathAbs(Sub(t.formants.f2.mean, u.formants.f2.mean)), R(F2Spread)))),
        R(2))

\* the formant score with the F3 means averaged in as a third term
FormantsScoreWithF3(t, u) ==
    LET similarity_(a, b, spread) ==
            Sub(R(1), Min2(R(1), Div(MathAbs(Sub(a, b)), R(spread))))
    IN  Div(Add(Add(similarity_(t.formants.f1.mean, u.formants.f1.mean, F1Spread),
                    similarity_(t.formants.f2.mean, u.formants.f2.mean, F2Spread)),
                similarity_(t.formants.f3.mean, u.formants.f3.mean, F2Spread)),
            R(3))

\* scores.formants: closeness of the F1 and F2 means
FormantsScore(t, u) ==
    LET f1Similarity ==
            Sub(R(1), Min2(R(1), Div(MathAbs(Sub(t.formants.f1.mean, u.formants.f1.mean)),
                                     R(F1Spread))))
        f2Similarity ==
            Sub(R(1), Min2(R(1), Div(MathAbs(Sub(t.formants.f2.mean, u.formants.f2.mean)),
                                     R(F2Spread))))
    IN  Div(Add(f1Similarity, f2Similarity), R(2))

\* scores.intensity: DTW over the normalized intensity contours
IntensityScore(t, u) ==
    DtwSimilarity(Normalize(t.intensity.values), Normalize(u.intensity.values))

RateSpread == 3

\* scores.speakingRate
SpeakingRateScore(t, u) ==
    LET rateDiff == MathAbs(Sub(t.speakingRate.syllablesPerSecond,
                                u.speakingRate.syllablesPerSecond))
    IN  Max2(R(0), Sub(R(1), Div(rateDiff, R(RateSpread))))

RangeSpread == 100
NeutralScore == <<1, 2>>

\* the pitch range score without the Math.max(0, ...) clamp
PitchRangeScoreUnclamped(t, u) ==
    IF t.pitchRange.present /\ u.pitchRange.present
    THEN Sub(R(1), Div(MathAbs(Sub(Sub(t.pitchRange.max, t.pitchRange.min),
                                   Sub(u.pitchRange.max, u.pitchRange.min))),
                       R(RangeSpread)))
    ELSE NeutralScore

\* scores.pitchRange
PitchRangeScore(t, u) ==
    IF t.pitchRange.present /\ u.pitchRange.present
    THEN LET rangeDiff == MathAbs(Sub(Sub(t.pitchRange.max, t.pitchRange.min),
                                      Sub(u.pitchRange.max, u.pitchRange.min)))
         IN  Max2(R(0), Sub(R(1), Div(rangeDiff, R(RangeSpread))))
    ELSE NeutralScore

\* the duration ratio without the Math.min
DurationScoreOneWay(t, u) == Div(u.duration, t.duration)

\* scores.duration
DurationScore(t, u) == Min2(Div(t.duration, u.duration), Div(u.duration, t.duration))

\* the weights of the overall score: 0.25, 0.20, 0.15, 0.15, 0.15, 0.10
Weights == [f0 |-> <<1, 4>>, formants |-> <<1, 5>>, intensity |-> <<3, 20>>,
            speakingRate |-> <<3, 20>>, pitchRange |-> <<3, 20>>, duration |-> <<1, 10>>]

\* the overall score as the plain average of the six dimensions
OverallScoreUnweighted(f0, formants, intensity, speakingRate, pitchRange, duration) ==
    Div(Add(Add(Add(Add(Add(f0, formants), intensity), speakingRate), pitchRange), duration),
        R(6))

\* scores.overall
OverallScore(f0, formants, intensity, speakingRate, pitchRange, duration) ==
    Add(Add(Add(Add(Add(Mul(f0, Weights.f0),
                        Mul(formants, Weights.formants)),
                    Mul(intensity, Weights.intensity)),
                Mul(speakingRate, Weights.speakingRate)),
            Mul(pitchRange, Weights.pitchRange)),
        Mul(duration, Weights.duration))

\* compareProsody(targetFeatures, userFeatures)
CompareProsody(t, u) ==
    LET f0 == F0Score(t, u)
        formants == FormantsScore(t, u)
        intensity == IntensityScore(t, u)
        speakingRate == SpeakingRateScore(t, u)
        pitchRange == PitchRangeScore(t, u)
        duration == DurationScore(t, u)
    IN  [status |-> "ok",
         f0 |-> f0,
         formants |-> formants,
         intensity |-> intensity,
         speakingRate |-> speakingRate,
         pitchRange |-> pitchRange,
         duration |-> duration,
         overall |-> OverallScore(f0, formants, intensity, speakingRate, pitchRange, duration)]

---------------------------------------------------------------------------
(* generateFeedback and the session statistics.                            *)

PitchLowMsg == "Try speaking with a slightly higher pitch to match the target accent."
PitchHighMsg == "Your pitch is higher than the target. Try lowering it slightly."
RangeNarrowMsg ==
    "Add more variation to your intonation - the target has a wider pitch range."
ResonanceMsg == "Focus on vowel sounds - the resonance differs from the target accent."
RateSlowMsg == "Try speaking a bit faster to match the natural rhythm of this accent."
RateFastMsg == "Slow down slightly - take more time with each syllable."
StressMsg ==
    "Pay attention to stress patterns - vary your emphasis on different syllables."
IntonationMsg ==
    "Work on your intonation patterns - try to match the melodic contour of the accent."
AffirmMsg == "Great work! Keep practicing to maintain consistency."

\* the threshold 0.6 of every check
FeedbackThreshold == <<3, 5>>

\* the block under  if (scores.f0 < 0.6)
PitchFeedback(sc, t, u) ==
    IF Less(sc.f0, FeedbackThreshold) /\ u.pitchRange.present /\ t.pitchRange.present
    THEN (IF Less(u.pitchRange.mean, Mul(t.pitchRange.mean, <<9, 10>>))
          THEN <<PitchLowMsg>>
          ELSE IF Less(Mul(t.pitchRange.mean, <<11, 10>>), u.pitchRange.mean)
          THEN <<PitchHighMsg>>
          ELSE <<>>)
         \o (IF Less(Sub(u.pitchRange.max, u.pitchRange.min),
                     Mul(Sub(t.pitchRange.max, t.pitchRange.min), <<7, 10>>))
             THEN <<RangeNarrowMsg>>
             ELSE <<>>)
    ELSE <<>>

ResonanceFeedback(sc) ==
    IF Less(sc.formants, FeedbackThreshold) THEN <<ResonanceMsg>> ELSE <<>>

\* the block under  if (scores.speakingRate < 0.6)
RateFeedback(sc, t, u) ==
    LET targetRate == t.speakingRate.syllablesPerSecond
        userRate == u.speakingRate.syllablesPerSecond
    IN  IF ~Less(sc.speakingRate, FeedbackThreshold) THEN <<>>
        ELSE IF Less(userRate, Mul(targetRate, <<4, 5>>)) THEN <<RateSlowMsg>>
        ELSE IF Less(Mul(targetRate, <<6, 5>>), userRate) THEN <<RateFastMsg>>
        ELSE <<>>

StressFeedback(sc) ==
    IF Less(sc.intensity, FeedbackThreshold) THEN <<StressMsg>> ELSE <<>>

IntonationFeedback(sc) ==
    IF Less(sc.pitchRange, FeedbackThreshold) THEN <<IntonationMsg>> ELSE <<>>

\* generateFeedback with the stress check placed before the rate check
GenerateFeedbackStressEarly(sc, t, u) ==
    LET found == PitchFeedback(sc, t, u) \o ResonanceFeedback(sc) \o StressFeedback(sc)
                     \o RateFeedback(sc, t, u) \o IntonationFeedback(sc)
    IN  IF Len(found) = 0 THEN <<AffirmMsg>> ELSE found

\* generateFeedback without the closing affirmation
GenerateFeedbackNoAffirmation(sc, t, u) ==
    PitchFeedback(sc, t, u) \o ResonanceFeedback(sc) \o RateFeedback(sc, t, u)
        \o StressFeedback(sc) \o IntonationFeedback(sc)

\* generateFeedback with the affirmation pushed whatever was found
GenerateFeedbackAlwaysAffirms(sc, t, u) ==
    PitchFeedback(sc, t, u) \o ResonanceFeedback(sc) \o RateFeedback(sc, t, u)
        \o StressFeedback(sc) \o IntonationFeedback(sc) \o <<AffirmMsg>>

\* generateFeedback(scores, targetFeatures, userFeatures)
GenerateFeedback(sc, t, u) ==
    LET found == PitchFeedback(sc, t, u) \o ResonanceFeedback(sc) \o RateFeedback(sc, t, u)
                     \o StressFeedback(sc) \o IntonationFeedback(sc)
    IN  IF Len(found) = 0 THEN <<AffirmMsg>> ELSE found

\* getSessionStats()
GetSessionStats(stats) ==
    [attempts |-> stats.attempts,
     totalScore |-> stats.totalScore,
     bestScore |-> stats.bestScore,
     averageScore |-> IF stats.attempts > 0
                      THEN Div(stats.totalScore, R(stats.attempts))
                      ELSE R(0)]

\* sessionStats.attempts++, totalScore += overall, bestScore raised
UpdateStats(stats, overall) ==
    [attempts |-> stats.attempts + 1,
     totalScore |-> Add(stats.totalScore, overall),
     bestScore |-> IF Less(stats.bestScore, overall) THEN overall ELSE stats.bestScore]

---------------------------------------------------------------------------
(* The analysis flow: a target recording is decoded and analysed, then a   *)
(* user recording, then the two bundles are compared (PracticeManager's    *)
(* selectNewPrompt followed by analyzeAttempt).                            *)

\* rates an AudioContext runs at; 11025 is not a multiple of 100
SampleRates == {8000, 11025}

MaxFrames == 3

\* the shortest buffer that gives `frames` frames
LengthFor(frames, sr) == FrameSizeOf(sr) + (frames - 1) * HopSizeOf(sr) + 1

Silence(length) == Tuple([k \in 1..length |-> 0])

\* one full-scale impulse every `period` samples from sample `from` up to,
\* not including, sample `to` (0-based); silence elsewhere
Impulses(length, period, from, to) ==
    Tuple([k \in 1..length |->
             IF k > from /\ k <= to /\ (k - 1 - from) % period = 0 THEN 1 ELSE 0])

\* a square wave of amplitude 1
SquareWave(length, period) ==
    Tuple([k \in 1..length |-> IF (k - 1) % period < (period + 1) \div 2 THEN 1 ELSE -1])

\* one cycle repeated over the whole buffer
Periodic(length, cycle) == Tuple([k \in 1..length |-> cycle[((k - 1) % Len(cycle)) + 1]])

\* one cycle of a tone one sample shorter than the shortest lag searched:
\* 19 samples (421 Hz) at 8000 Hz, 26 samples (424 Hz) at 11025 Hz
ShortCycle(sr) ==
    IF sr = 8000
    THEN <<0, 1, 1, 2, 2, 2, 2, 1, 1, 0, 0, -1, -1, -2, -2, -2, -2, -1, -1>>
    ELSE <<0, 1, 1, 1, 1, 1, 1, 1, 1, 1, 1, 1, 1, 0, -1, -1, -1, -1, -1, -1, -1, -1,
           -1, -1, -1, -1>>

Root(imagPositive, freq, bandwidth) ==
    [imagPositive |-> imagPositive, freq |-> R(freq), bandwidth |-> R(bandwidth)]

\* twelve roots in conjugate pairs; of the upper ones three pass the filter
RootsA ==
    <<Root(TRUE, 1500, 100), Root(FALSE, -1500, 100), Root(TRUE, 500, 80),
      Root(FALSE, -500, 80), Root(TRUE, 150, 50), Root(FALSE, -150, 50),
      Root(TRUE, 2500, 600), Root(FALSE, -2500, 600), Root(TRUE, 3500, 200),
      Root(FALSE, -3500, 200), Root(TRUE, 3900, 900), Root(FALSE, -3900, 900)>>

\* a frame with a single formant candidate
RootsB ==
    <<Root(TRUE, 700, 120), Root(FALSE, -700, 120), Root(TRUE, 100, 20),
      Root(FALSE, -100, 20), Root(TRUE, 1800, 500), Root(FALSE, -1800, 500),
      Root(TRUE, 2600, 800), Root(FALSE, -2600, 800), Root(TRUE, 3000, 1000),
      Root(FALSE, -3000, 1000), Root(TRUE, 3600, 700), Root(FALSE, -3600, 700)>>

\* a frame with five formant candidates, out of order
RootsC ==
    <<Root(TRUE, 3200, 300), Root(FALSE, -3200, 300), Root(TRUE, 2400, 150),
      Root(FALSE, -2400, 150), Root(TRUE, 3800, 499), Root(FALSE, -3800, 499),
      Root(TRUE, 900, 90), Root(FALSE, -900, 90), Root(TRUE, 200, 40),
      Root(FALSE, -200, 40), Root(TRUE, 1200, 60), Root(FALSE, -1200, 60)>>

\* a frame with two formant candidates
RootsD ==
    <<Root(TRUE, 2900, 250), Root(FALSE, -2900, 250), Root(TRUE, 3990, 520),
      Root(FALSE, -3990, 520), Root(TRUE, 650, 70), Root(FALSE, -650, 70),
      Root(TRUE, 1700, 500), Root(FALSE, -1700, 500), Root(TRUE, 180, 30),
      Root(FALSE, -180, 30), Root(TRUE, 3700, 650), Root(FALSE, -3700, 650)>>

Decoded(samples, db, roots) ==
    [status |-> "decoded", samples |-> samples, db |-> db, roots |-> roots]

Undecodable == [status |-> "undecodable"]

\* what decodeAudioData can hand to analyzeAudio at rate sr: a rejection, an
\* empty buffer, a buffer too short for one frame, silence, a pulse train
\* over the whole buffer, one that stops after the first frame, one that
\* starts too late to be tracked, one frame of a square wave whose period is
\* just beyond the longest lag searched, one frame of a tone whose period is
\* just below the shortest lag searched
Recordings(sr) ==
    LET full == LengthFor(MaxFrames, sr)
        pitch == HopSizeOf(sr) \div 2
    IN  {Undecodable,
         Decoded(<<>>, <<R(-20)>>, <<RootsA>>),
         Decoded(Impulses(FrameSizeOf(sr), pitch, 0, full), <<R(-20)>>, <<RootsA>>),
         Decoded(Impulses(full, pitch, 0, full), <<R(-30), R(-10), R(-25)>>,
                 <<RootsA, RootsB>>),
         Decoded(Impulses(full, pitch, 0, full), <<R(-12), R(-18)>>,
                 <<RootsB, RootsC, RootsD>>),
         Decoded(Impulses(full, pitch, 0, FrameSizeOf(sr)), <<R(-15), R(-40)>>,
                 <<RootsA>>),
         Decoded(Impulses(full, pitch, LengthFor(2, sr), full), <<R(-15)>>, <<RootsB>>),
         Decoded(SquareWave(LengthFor(1, sr), (sr \div MinF0) + 3), <<R(0)>>, <<RootsB>>),
         Decoded(Periodic(LengthFor(1, sr), ShortCycle(sr)), <<R(-6)>>, <<RootsA>>)}
            \cup {Decoded(Silence(LengthFor(f, sr)), <<R(-20)>>, <<RootsA>>) :
                     f \in 1..MaxFrames}

DtwIdle ==
    /\ seq1 = <<>>
    /\ seq2 = <<>>
    /\ similarity = NoNumber

\* sessionStats = { attempts: 0, totalScore: 0, bestScore: 0 }
NoStats == [attempts |-> 0, totalScore |-> R(0), bestScore |-> R(0)]

\* nothing compared yet
NothingScored ==
    /\ scores = NoResult
    /\ feedback = NoFeedback
    /\ scoreSetIds = <<>>
    /\ sessionStats = NoStats
    /\ attemptLog = <<>>
    /\ rateEstimate = NoResult

\* new AudioRecorder(): no stream, no MediaRecorder, no chunks, not recording
RecorderIdle ==
    /\ recorder = [isRecording |-> FALSE, mediaRecorder |-> 0, audioChunks |-> <<>>,
                   stream |-> FALSE]
    /\ mediaRecorders = <<>>
    /\ calls = <<>>

\* how many transformAndAnalyze calls can be suspended at once
MaxFlows == 2
Flows == 1..MaxFlows

\* transformAndAnalyze is not running
AppIdle ==
    /\ pc = [f \in Flows |-> "idle"]
    /\ pending = [f \in Flows |-> NoAudio]
    /\ analyzeEnabled = FALSE
    /\ screen = "welcome"
    /\ analyzeLabel = "Transform & Analyze"
    /\ displayed = NoResult
    /\ RecorderIdle

Init ==
    /\ sampleRate \in SampleRates
    /\ targetAudio \in Recordings(sampleRate)
    /\ userAudio = NoAudio
    /\ targetFeatures = NoResult
    /\ userFeatures = NoResult
    /\ NothingScored
    /\ DtwIdle
    /\ AppIdle

\* this.targetFeatures = await this.prosody.analyzeAudio(this.targetAudioBlob)
AnalyzeTarget ==
    /\ targetFeatures = NoResult
    /\ targetFeatures' = AnalyzeAudio(targetAudio, sampleRate)
    /\ UNCHANGED <<sampleRate, targetAudio, userAudio, userFeatures, scores,
                   seq1, seq2, similarity, feedback, scoreSetIds, sessionStats,
                   pc, pending, analyzeEnabled,
                   rateEstimate, attemptLog, uiVars, recVars>>

\* the user's recording arrives once the target is ready
RecordUser ==
    /\ targetFeatures.status = "ok"
    /\ userAudio = NoAudio
    /\ userAudio' \in Recordings(sampleRate)
    /\ UNCHANGED <<sampleRate, targetAudio, targetFeatures, userFeatures, scores,
                   seq1, seq2, similarity, feedback, scoreSetIds, sessionStats,
                   pc, pending, analyzeEnabled,
                   rateEstimate, attemptLog, uiVars, recVars>>

\* const userFeatures = await this.prosody.analyzeAudio(userAudioBlob)
AnalyzeUser ==
    /\ userAudio # NoAudio
    /\ userFeatures = NoResult
    /\ userFeatures' = AnalyzeAudio(userAudio, sampleRate)
    /\ UNCHANGED <<sampleRate, targetAudio, userAudio, targetFeatures, scores,
                   seq1, seq2, similarity, feedback, scoreSetIds, sessionStats,
                   pc, pending, analyzeEnabled,
                   rateEstimate, attemptLog, uiVars, recVars>>

\* the rest of analyzeAttempt: compareProsody, generateFeedback and the
\* session statistics
Compare ==
    /\ targetFeatures.status = "ok"
    /\ userFeatures.status = "ok"
    /\ scores = NoResult
    /\ scores' = CompareProsody(targetFeatures, userFeatures)
    /\ scoreSetIds' = Append(scoreSetIds, Len(scoreSetIds) + 1)
    /\ feedback' = GenerateFeedback(scores', targetFeatures, userFeatures)
    /\ sessionStats' = UpdateStats(sessionStats, scores'.overall)
    /\ attemptLog' = Append(attemptLog, scores'.overall)
    /\ UNCHANGED <<sampleRate, targetAudio, userAudio, targetFeatures, userFeatures,
                   seq1, seq2, similarity, pc, pending, analyzeEnabled,
                   rateEstimate, uiVars, recVars>>

Next == AnalyzeTarget \/ RecordUser \/ AnalyzeUser \/ Compare

Spec == Init /\ [][Next]_vars

---------------------------------------------------------------------------
(* Inputs of the dtwSimilarity check.                                      *)

MaxSeqLen == 3
SeqValues == {R(-1), R(0), <<3, 2>>}
LongLens == {101, 150}

RECURSIVE SeqsOfLen(_)
SeqsOfLen(n) ==
    IF n = 0 THEN {<<>>}
    ELSE {Append(s, v) : s \in SeqsOfLen(n - 1), v \in SeqValues}

ShortSeqs == UNION {SeqsOfLen(n) : n \in 0..MaxSeqLen}

\* sequences longer than the resampling cap: a sawtooth and a constant
LongSeqs ==
    {[k \in 1..len |-> R((k * 7) % 5)] : len \in LongLens}
        \cup {[k \in 1..len |-> R(4)] : len \in LongLens}

DtwInputs == ShortSeqs \cup LongSeqs

EngineIdle ==
    /\ sampleRate = 0
    /\ targetAudio = NoAudio
    /\ userAudio = NoAudio
    /\ targetFeatures = NoResult
    /\ userFeatures = NoResult
    /\ NothingScored
    /\ AppIdle

InitDtw ==
    /\ EngineIdle
    /\ seq1 \in DtwInputs
    /\ seq2 \in DtwInputs
    /\ similarity = NoNumber

CallDtwSimilarity ==
    /\ similarity = NoNumber
    /\ similarity' = DtwSimilarity(seq1, seq2)
    /\ UNCHANGED <<sampleRate, targetAudio, userAudio, targetFeatures,
                   userFeatures, scores, seq1, seq2, feedback, scoreSetIds,
                   sessionStats, pc, pending, analyzeEnabled,
                   rateEstimate, attemptLog, uiVars, recVars>>

NextDtw == CallDtwSimilarity

SpecDtw == InitDtw /\ [][NextDtw]_vars

---------------------------------------------------------------------------
(* compareProsody on its own: the two bundles are arguments drawn from a   *)
(* bounded set of bundles of the shape analyzeAudio returns (contours kept *)
(* to a few frames).                                                       *)

FrameTimes(n) == Tuple([k \in 1..n |-> Norm(k - 1, 100)])

ConstantSeries(n, value) == FormantSeries(Tuple([k \in 1..n |-> value]))

Bundle(f0Values, formantMeans, dbValues, syllables, duration) ==
    [status |-> "ok",
     f0 |-> [values |-> f0Values, times |-> FrameTimes(Len(f0Values)),
             frameRate |-> R(100)],
     formants |-> [f1 |-> ConstantSeries(Len(f0Values), formantMeans[1]),
                   f2 |-> ConstantSeries(Len(f0Values), formantMeans[2]),
                   f3 |-> ConstantSeries(Len(f0Values), R(0)),
                   times |-> FrameTimes(Len(f0Values))],
     intensity |-> [values |-> dbValues, times |-> FrameTimes(Len(dbValues)),
                    mean |-> Mean(dbValues),
                    range |-> Sub(MathMax(dbValues), MathMin(dbValues))],
     duration |-> duration,
     speakingRate |-> [syllablesPerSecond |-> Div(R(syllables), duration),
                       estimatedSyllables |-> syllables,
                       duration |-> duration],
     pitchRange |-> PitchRangeOf(f0Values)]

F0Contours ==
    {<<R(0), R(0), R(0)>>, <<R(100), R(120), R(0)>>, <<R(100), R(300), R(100)>>,
     <<R(210), R(200), R(210)>>}
FormantMeans == {<<R(500), R(1500)>>, <<R(700), R(0)>>}
DbContours == {<<R(-20), R(-20), R(-20)>>, <<R(-30), R(-10), R(-25)>>}
SyllableCounts == {13, 16}
Durations == {R(2), R(4)}

Bundles ==
    {Bundle(f0, fm, db, syl, dur) :
        f0 \in F0Contours, fm \in FormantMeans, db \in DbContours,
        syl \in SyllableCounts, dur \in Durations}

InitCompare ==
    /\ sampleRate = 0
    /\ targetAudio = NoAudio
    /\ userAudio = NoAudio
    /\ targetFeatures \in Bundles
    /\ userFeatures \in Bundles
    /\ NothingScored
    /\ DtwIdle
    /\ AppIdle

\* how many times compareProsody is called on one pair of bundles
MaxCalls == 2

\* compareProsody with its scores kept in one object shared by every call
CallCompareProsodySharedScores ==
    /\ Len(scoreSetIds) < MaxCalls
    /\ scores' = CompareProsody(targetFeatures, userFeatures)
    /\ scoreSetIds' = Append(scoreSetIds, 1)
    /\ UNCHANGED <<sampleRate, targetAudio, userAudio, targetFeatures, userFeatures,
                   seq1, seq2, similarity, feedback, sessionStats,
                   pc, pending, analyzeEnabled,
                   rateEstimate, attemptLog, uiVars, recVars>>

\* compareProsody(targetFeatures, userFeatures): const scores = {} is a new
\* object in every call, and the bundles are only read
CallCompareProsody ==
    /\ Len(scoreSetIds) < MaxCalls
    /\ scores' = CompareProsody(targetFeatures, userFeatures)
    /\ scoreSetIds' = Append(scoreSetIds, Len(scoreSetIds) + 1)
    /\ UNCHANGED <<sampleRate, targetAudio, userAudio, targetFeatures, userFeatures,
                   seq1, seq2, similarity, feedback, sessionStats,
                   pc, pending, analyzeEnabled,
                   rateEstimate, attemptLog, uiVars, recVars>>

\* generateFeedback(scores, targetFeatures, userFeatures): const feedback = []
\* is filled and returned; the three arguments are only read
CallGenerateFeedback ==
    /\ scores.status = "ok"
    /\ feedback = NoFeedback
    /\ feedback' = GenerateFeedback(scores, targetFeatures, userFeatures)
    /\ UNCHANGED <<sampleRate, targetAudio, userAudio, targetFeatures, userFeatures,
                   scores, seq1, seq2, similarity, scoreSetIds, sessionStats,
                   pc, pending, analyzeEnabled,
                   rateEstimate, attemptLog, uiVars, recVars>>

NextCompare == CallCompareProsody \/ CallGenerateFeedback

SpecCompare == InitCompare /\ [][NextCompare]_vars

---------------------------------------------------------------------------
(* estimateSpeakingRate on its own: recordings of up to MaxRateFrames      *)
(* frames, none of them silent, with every intensity contour over three    *)
(* levels.                                                                 *)

MaxRateFrames == 6
DbLevels == {R(-30), R(-20), R(-10)}

RECURSIVE DbContoursOfLen(_)
DbContoursOfLen(n) ==
    IF n = 0 THEN {<<>>}
    ELSE {Append(c, v) : c \in DbContoursOfLen(n - 1), v \in DbLevels}

\* a pulse train of `frames` frames whose frame k has the intensity db[k]
RateRecording(frames, db, sr) ==
    Decoded(Impulses(LengthFor(frames, sr), HopSizeOf(sr) \div 2, 0, LengthFor(frames, sr)),
            IF frames = 0 THEN <<R(-20)>> ELSE db, <<RootsA>>)

RateRecordings(sr) ==
    UNION {{RateRecording(n, db, sr) : db \in DbContoursOfLen(n)} : n \in 0..MaxRateFrames}

InitRate ==
    /\ sampleRate \in SampleRates
    /\ userAudio \in RateRecordings(sampleRate)
    /\ targetAudio = NoAudio
    /\ targetFeatures = NoResult
    /\ userFeatures = NoResult
    /\ NothingScored
    /\ DtwIdle
    /\ AppIdle

\* estimateSpeakingRate(samples, sampleRate)
CallEstimateSpeakingRate ==
    /\ rateEstimate = NoResult
    /\ rateEstimate' = [status |-> "ok"] @@ EstimateSpeakingRate(userAudio, sampleRate)
    /\ UNCHANGED <<sampleRate, targetAudio, userAudio, targetFeatures, userFeatures,
                   scores, seq1, seq2, similarity, feedback, scoreSetIds, sessionStats,
                   pc, pending, analyzeEnabled, attemptLog, uiVars, recVars>>

NextRate == CallEstimateSpeakingRate

SpecRate == InitRate /\ [][NextRate]_vars

(* Properties of estimateSpeakingRate (checked under SpecRate).            *)

RateDone == rateEstimate # NoResult

\* the intensity series of the recording
DbSeries == ExtractIntensity(userAudio, sampleRate).values

\* the average of the series over the frames i-2 .. i+2 that exist (0-based i)
Centred5(series, i) ==
    LET lo == IF i - 2 < 0 THEN 0 ELSE i - 2
        hi == IF i + 2 > Len(series) - 1 THEN Len(series) - 1 ELSE i + 2
    IN  Div(Sum([k \in 1..(hi - lo + 1) |-> series[lo + k]]), R(hi - lo + 1))

\* interior frames whose smoothed value tops both neighbours
LocalMaxima(series) ==
    {i \in 1..(Len(series) - 2) :
        /\ Less(Centred5(series, i - 1), Centred5(series, i))
        /\ Less(Centred5(series, i + 1), Centred5(series, i))}

\* C24: estimatedSyllables is the number of interior frames at which the
\* 5-frame centred moving average of the intensity series (shorter at the
\* ends of the series) is strictly greater than at both neighbours and than
\* the mean of the unsmoothed series; syllablesPerSecond is that count
\* divided by samples.length / sampleRate
C24_SyllablesArePeaksAboveMean ==
    RateDone =>
        LET series == DbSeries
            peaks == {i \in LocalMaxima(series) :
                         Less(Div(Sum(series), R(Len(series))), Centred5(series, i))}
        IN  /\ rateEstimate.estimatedSyllables = Cardinality(peaks)
            /\ rateEstimate.syllablesPerSecond =
                   Div(R(Cardinality(peaks)), Div(R(Len(userAudio.samples)), R(sampleRate)))

\* a series with a counted peak and a local maximum that stays below the mean
C24_Witness ==
    /\ RateDone
    /\ rateEstimate.estimatedSyllables = 1
    /\ Cardinality(LocalMaxima(DbSeries)) = 2

---------------------------------------------------------------------------
(* MirrorAccentApp: the welcome, practice and results screens.             *)
(* transformAndAnalyze is an async function; each await is a point where   *)
(* the click handlers of the other buttons can run, and the analyze button *)
(* can be clicked again once toggleRecording has re-enabled it, so up to   *)
(* MaxFlows calls are in flight.  targetAudio is this.accentTransformedBlob*)
(* and userAudio is this.userRecordingBlob.  A button is clicked only on   *)
(* the screen bindEvents lists it under.                                   *)

AppSampleRate == 8000

\* how many attempts are started in one session
MaxAttempts == 2

\* a recording too short for one frame: its bundle is told apart by its
\* duration
Clip(length) == Decoded(Silence(length), <<R(-20)>>, <<RootsA>>)

\* the blobs recorder.stopRecording() resolves to (it can also resolve to null)
UserClips == {Clip(80), Clip(160)}

\* what api.speechToSpeech resolves to
TransformedClips == {Clip(120), Clip(160), Undecodable}

OriginalLabel == "Transform & Analyze"

InitApp ==
    /\ sampleRate = AppSampleRate
    /\ targetAudio = NoAudio
    /\ userAudio = NoAudio
    /\ targetFeatures = NoResult
    /\ userFeatures = NoResult
    /\ NothingScored
    /\ DtwIdle
    /\ AppIdle

\* selectAccent(card): newPrompt(), then showScreen('practice')
SelectAccent ==
    /\ screen = "welcome"
    /\ userAudio' = NoAudio
    /\ targetAudio' = NoAudio
    /\ analyzeEnabled' = FALSE
    /\ analyzeLabel' = OriginalLabel
    /\ screen' = "practice"
    /\ UNCHANGED <<sampleRate, targetFeatures, userFeatures, scores, seq1, seq2,
                   similarity, feedback, scoreSetIds, sessionStats, pc, pending,
                   rateEstimate, attemptLog, displayed, recVars>>

\* newPrompt(), from the new-prompt button or the continue-practice button
NewPrompt ==
    /\ screen \in {"practice", "results"}
    /\ userAudio' = NoAudio
    /\ targetAudio' = NoAudio
    /\ analyzeEnabled' = FALSE
    /\ analyzeLabel' = OriginalLabel
    /\ UNCHANGED <<sampleRate, targetFeatures, userFeatures, scores, seq1, seq2,
                   similarity, feedback, scoreSetIds, sessionStats, pc, pending,
                   rateEstimate, attemptLog, screen, displayed, recVars>>

\* resetPractice(), from the try-again button
ResetPractice ==
    /\ screen = "results"
    /\ userAudio' = NoAudio
    /\ targetAudio' = NoAudio
    /\ analyzeEnabled' = FALSE
    /\ screen' = "practice"
    /\ UNCHANGED <<sampleRate, targetFeatures, userFeatures, scores, seq1, seq2,
                   similarity, feedback, scoreSetIds, sessionStats, pc, pending,
                   rateEstimate, attemptLog, analyzeLabel, displayed, recVars>>

\* the back-to-practice button: showScreen('practice')
BackToPractice ==
    /\ screen = "results"
    /\ screen' = "practice"
    /\ UNCHANGED <<sampleRate, targetAudio, userAudio, targetFeatures, userFeatures,
                   scores, seq1, seq2, similarity, feedback, scoreSetIds, sessionStats,
                   pc, pending, analyzeEnabled, rateEstimate, attemptLog, analyzeLabel,
                   displayed, recVars>>

\* toggleRecording(), the branch that stops the recorder, from the point
\* where recorder.stopRecording() has resolved
ToggleRecording ==
    /\ screen # "welcome"
    /\ \E blob \in UserClips \cup {NoAudio} :
           /\ userAudio' = blob
           /\ analyzeEnabled' = IF blob # NoAudio THEN TRUE ELSE analyzeEnabled
    /\ UNCHANGED <<sampleRate, targetAudio, targetFeatures, userFeatures, scores,
                   seq1, seq2, similarity, feedback, scoreSetIds, sessionStats,
                   pc, pending,
                   rateEstimate, attemptLog, uiVars, recVars>>

\* the catch block without btn.disabled = false
CaughtButtonLeftDisabled(f) ==
    /\ pc' = [pc EXCEPT ![f] = "idle"]
    /\ pending' = [pending EXCEPT ![f] = NoAudio]
    /\ analyzeLabel' = OriginalLabel
    /\ UNCHANGED <<analyzeEnabled, screen, displayed, sessionStats, attemptLog>>

\* the catch block of transformAndAnalyze
Caught(f) ==
    /\ pc' = [pc EXCEPT ![f] = "idle"]
    /\ pending' = [pending EXCEPT ![f] = NoAudio]
    /\ analyzeLabel' = OriginalLabel
    /\ analyzeEnabled' = TRUE
    /\ UNCHANGED <<screen, displayed, sessionStats, attemptLog>>

InFlight == {f \in Flows : pc[f] # "idle"}

\* a click on the analyze button: transformAndAnalyze() up to its first await
TransformAndAnalyze ==
    /\ screen = "practice"
    /\ analyzeEnabled
    /\ InFlight # Flows
    /\ sessionStats.attempts + Cardinality(InFlight) < MaxAttempts
    /\ IF userAudio = NoAudio
       THEN UNCHANGED <<pc, pending, analyzeEnabled, analyzeLabel>>
       ELSE \E f \in Flows :
                /\ pc[f] = "idle"
                /\ \A g \in Flows : g < f => pc[g] # "idle"
                /\ analyzeEnabled' = FALSE
                /\ analyzeLabel' = "Transforming..."
                /\ pending' = [pending EXCEPT ![f] = userAudio]
                /\ pc' = [pc EXCEPT ![f] = "speechToSpeech"]
    /\ UNCHANGED <<sampleRate, targetAudio, userAudio, targetFeatures, userFeatures,
                   scores, seq1, seq2, similarity, feedback, scoreSetIds,
                   sessionStats,
                   rateEstimate, attemptLog, screen, displayed, recVars>>

\* speechToSpeech settles: this.accentTransformedBlob is assigned and
\* analyzeAudio(this.userRecordingBlob) is called
SpeechToSpeechDone ==
    \E f \in Flows :
        /\ pc[f] = "speechToSpeech"
        /\ \E result \in TransformedClips \cup {Failed} :
               IF result = Failed
               THEN Caught(f) /\ UNCHANGED targetAudio
               ELSE /\ targetAudio' = result
                    /\ analyzeLabel' = "Analyzing..."
                    /\ pending' = [pending EXCEPT ![f] = userAudio]
                    /\ pc' = [pc EXCEPT ![f] = "analyzeUser"]
                    /\ UNCHANGED <<analyzeEnabled, screen, displayed, sessionStats,
                                   attemptLog>>
        /\ UNCHANGED <<sampleRate, userAudio, targetFeatures, userFeatures, scores,
                       seq1, seq2, similarity, feedback, scoreSetIds,
                       rateEstimate, recVars>>

\* the user analysis settles: this.userFeatures is assigned and
\* analyzeAudio(this.accentTransformedBlob) is called
UserAnalysisDone ==
    \E f \in Flows :
        /\ pc[f] = "analyzeUser"
        /\ \E result \in {AnalyzeAudio(pending[f], sampleRate)} :
               IF result.status # "ok"
               THEN Caught(f) /\ UNCHANGED userFeatures
               ELSE /\ userFeatures' = result
                    /\ pending' = [pending EXCEPT ![f] = targetAudio]
                    /\ pc' = [pc EXCEPT ![f] = "analyzeTarget"]
                    /\ UNCHANGED <<analyzeEnabled, analyzeLabel, screen, displayed,
                                   sessionStats, attemptLog>>
        /\ UNCHANGED <<sampleRate, targetAudio, userAudio, targetFeatures, scores,
                       seq1, seq2, similarity, feedback, scoreSetIds,
                       rateEstimate, recVars>>

\* the target analysis settles: this.targetFeatures is assigned, then
\* compareProsody, generateFeedback, the statistics, displayResults and the
\* results screen
TargetAnalysisDone ==
    \E f \in Flows :
        /\ pc[f] = "analyzeTarget"
        /\ \E result \in {AnalyzeAudio(pending[f], sampleRate)} :
               IF result.status # "ok"
               THEN /\ Caught(f)
                    /\ UNCHANGED <<targetFeatures, scores, feedback, scoreSetIds>>
               ELSE /\ targetFeatures' = result
                    /\ scores' = CompareProsody(result, userFeatures)
                    /\ scoreSetIds' = Append(scoreSetIds, Len(scoreSetIds) + 1)
                    /\ feedback' = GenerateFeedback(scores', result, userFeatures)
                    /\ sessionStats' = UpdateStats(sessionStats, scores'.overall)
                    /\ attemptLog' = Append(attemptLog, scores'.overall)
                    /\ displayed' = [status |-> "shown", scores |-> scores',
                                     feedback |-> feedback']
                    /\ screen' = "results"
                    /\ analyzeLabel' = OriginalLabel
                    /\ analyzeEnabled' = TRUE
                    /\ pc' = [pc EXCEPT ![f] = "idle"]
                    /\ pending' = [pending EXCEPT ![f] = NoAudio]
        /\ UNCHANGED <<sampleRate, targetAudio, userAudio, userFeatures, seq1, seq2,
                       similarity,
                       rateEstimate, recVars>>

NextApp ==
    \/ SelectAccent
    \/ NewPrompt
    \/ ResetPractice
    \/ BackToPractice
    \/ ToggleRecording
    \/ TransformAndAnalyze
    \/ SpeechToSpeechDone
    \/ UserAnalysisDone
    \/ TargetAnalysisDone

SpecApp == InitApp /\ [][NextApp]_vars

---------------------------------------------------------------------------
(* AudioRecorder: startRecording and stopRecording called in any order,    *)
(* a call being issued whether or not the earlier ones have settled.  A    *)
(* MediaRecorder is a record of mediaRecorders: its state, the call whose  *)
(* handler stands in onstop, and whether its stop event is queued.  A      *)
(* chunk is named by the MediaRecorder that delivered it.                  *)

\* how many calls are made on one recorder
MaxRecCalls == 4

\* how many timeslice chunks arrive during the recordings
MaxChunks == 2

InitRecorder ==
    /\ sampleRate = AppSampleRate
    /\ targetAudio = NoAudio
    /\ userAudio = NoAudio
    /\ targetFeatures = NoResult
    /\ userFeatures = NoResult
    /\ NothingScored
    /\ DtwIdle
    /\ AppIdle

\* startRecording from this.audioChunks = [] to its return: a new
\* MediaRecorder replaces this.mediaRecorder and is started
BeginRecording ==
    /\ recorder' = [recorder EXCEPT !.audioChunks = <<>>,
                                    !.mediaRecorder = Len(mediaRecorders) + 1,
                                    !.isRecording = TRUE,
                                    !.stream = TRUE]
    /\ mediaRecorders' = Append(mediaRecorders,
                                [state |-> "recording", onstop |-> 0, stopQueued |-> FALSE])

\* a call of startRecording(), up to its return or to await this.initialize()
StartRecording ==
    /\ Len(calls) < MaxRecCalls
    /\ IF recorder.isRecording
       THEN /\ calls' = Append(calls, [op |-> "start", result |-> "false"])
            /\ UNCHANGED <<recorder, mediaRecorders>>
       ELSE IF ~recorder.stream
       THEN /\ calls' = Append(calls, [op |-> "start", result |-> "initializing"])
            /\ UNCHANGED <<recorder, mediaRecorders>>
       ELSE /\ BeginRecording
            /\ calls' = Append(calls, [op |-> "start", result |-> "true"])
    /\ UNCHANGED <<sampleRate, targetAudio, userAudio, targetFeatures, userFeatures,
                   scores, seq1, seq2, similarity, feedback, scoreSetIds, sessionStats,
                   pc, pending, analyzeEnabled, rateEstimate, attemptLog, uiVars>>

\* initialize() settles for a suspended startRecording: the stream is granted
\* and the call goes on to its end, or getUserMedia rejects and so does the call
InitializeDone ==
    /\ \E k \in 1..Len(calls) :
           /\ calls[k].result = "initializing"
           /\ \E granted \in BOOLEAN :
                  IF granted
                  THEN /\ BeginRecording
                       /\ calls' = [calls EXCEPT ![k].result = "true"]
                  ELSE /\ calls' = [calls EXCEPT ![k].result = "rejected"]
                       /\ UNCHANGED <<recorder, mediaRecorders>>
    /\ UNCHANGED <<sampleRate, targetAudio, userAudio, targetFeatures, userFeatures,
                   scores, seq1, seq2, similarity, feedback, scoreSetIds, sessionStats,
                   pc, pending, analyzeEnabled, rateEstimate, attemptLog, uiVars>>

\* ondataavailable of a MediaRecorder that is recording, with data: the chunk
\* is pushed on this.audioChunks
DataAvailable ==
    /\ Len(recorder.audioChunks) < MaxChunks
    /\ \E m \in 1..Len(mediaRecorders) :
           /\ mediaRecorders[m].state = "recording"
           /\ recorder' = [recorder EXCEPT !.audioChunks = Append(@, m)]
    /\ UNCHANGED <<sampleRate, targetAudio, userAudio, targetFeatures, userFeatures,
                   scores, seq1, seq2, similarity, feedback, scoreSetIds, sessionStats,
                   pc, pending, analyzeEnabled, rateEstimate, attemptLog, uiVars,
                   mediaRecorders, calls>>

\* a call of stopRecording(): the promise executor.  mediaRecorder.stop() on
\* a MediaRecorder that is already inactive does nothing or throws
\* InvalidStateError, depending on the browser
StopRecording ==
    /\ Len(calls) < MaxRecCalls
    /\ LET k == Len(calls) + 1
           m == recorder.mediaRecorder
       IN  IF ~recorder.isRecording \/ m = 0
           THEN /\ calls' = Append(calls, [op |-> "stop", result |-> "null"])
                /\ UNCHANGED mediaRecorders
           ELSE IF mediaRecorders[m].state = "recording"
           THEN /\ mediaRecorders' = [mediaRecorders EXCEPT ![m] =
                       [state |-> "inactive", onstop |-> k, stopQueued |-> TRUE]]
                /\ calls' = Append(calls, [op |-> "stop", result |-> "pending"])
           ELSE /\ mediaRecorders' = [mediaRecorders EXCEPT ![m].onstop = k]
                /\ \E thrown \in BOOLEAN :
                       calls' = Append(calls, [op |-> "stop",
                                               result |-> IF thrown THEN "rejected"
                                                          ELSE "pending"])
    /\ UNCHANGED <<sampleRate, targetAudio, userAudio, targetFeatures, userFeatures,
                   scores, seq1, seq2, similarity, feedback, scoreSetIds, sessionStats,
                   pc, pending, analyzeEnabled, rateEstimate, attemptLog, uiVars,
                   recorder>>

\* the stop event of a stopped MediaRecorder: the last data, if any, goes
\* through ondataavailable, then the handler standing in onstop runs; a
\* resolve on a promise that is already settled has no effect
StopEvent ==
    /\ \E m \in 1..Len(mediaRecorders) :
           /\ mediaRecorders[m].stopQueued
           /\ \E data \in BOOLEAN :
                  LET chunks == IF data THEN Append(recorder.audioChunks, m)
                                ELSE recorder.audioChunks
                      h == mediaRecorders[m].onstop
                  IN  /\ recorder' = [recorder EXCEPT !.audioChunks = chunks,
                                                      !.isRecording = FALSE]
                      /\ calls' = IF calls[h].result = "pending"
                                  THEN [calls EXCEPT ![h].result =
                                           IF Len(chunks) = 0 THEN "null" ELSE "blob"]
                                  ELSE calls
                      /\ mediaRecorders' = [mediaRecorders EXCEPT ![m].stopQueued = FALSE]
    /\ UNCHANGED <<sampleRate, targetAudio, userAudio, targetFeatures, userFeatures,
                   scores, seq1, seq2, similarity, feedback, scoreSetIds, sessionStats,
                   pc, pending, analyzeEnabled, rateEstimate, attemptLog, uiVars>>

NextRecorder ==
    \/ StartRecording
    \/ InitializeDone
    \/ DataAvailable
    \/ StopRecording
    \/ StopEvent

SpecRecorder == InitRecorder /\ [][NextRecorder]_vars

\* the browser delivers every queued stop event and settles every getUserMedia
SpecRecorderFair ==
    SpecRecorder /\ WF_vars(StopEvent) /\ WF_vars(InitializeDone)

(* Properties of the recorder (checked under SpecRecorderFair).            *)

\* the call issued in this step
Issued == calls'[Len(calls')]

\* a startRecording issued while isRecording is true returns false, clears
\* no chunk and replaces no MediaRecorder
StartRefusedWhileRecording ==
    [][(/\ Len(calls') = Len(calls) + 1
        /\ Issued.op = "start"
        /\ recorder.isRecording)
           => /\ Issued.result = "false"
              /\ recorder' = recorder
              /\ mediaRecorders' = mediaRecorders]_vars

StopResolved(k) ==
    /\ k <= Len(calls)
    /\ calls[k].op = "stop"
    /\ calls[k].result \in {"blob", "null"}

\* once a stopRecording call has resolved, isRecording is false
NotRecordingOnceResolved ==
    [][\A k \in 1..Len(calls') :
          (StopResolved(k)' /\ ~StopResolved(k)) => ~recorder'.isRecording]_vars

\* every stopRecording call resolves, with a blob or with null
EveryStopResolves ==
    \A k \in 1..MaxRecCalls :
        [](k <= Len(calls) /\ calls[k].op = "stop" => <>StopResolved(k))

\* C30: a startRecording issued while isRecording is true returns false
\* without clearing audioChunks or replacing the MediaRecorder, and every
\* stopRecording call eventually resolves with a blob or with null, after
\* which isRecording is false
C30_RecorderCalls ==
    /\ StartRefusedWhileRecording
    /\ NotRecordingOnceResolved
    /\ EveryStopResolves

(* Properties of the attempt flow (checked under SpecApp).                 *)

\* compareProsody ran in this step
ComparedNow == Len(scoreSetIds') > Len(scoreSetIds)

\* C19: whenever compareProsody runs, both analyses have completed and its
\* arguments are the bundle of the current target audio and the bundle of
\* the current user recording
C19_CompareOnCurrentAudio ==
    [][ComparedNow =>
          /\ targetFeatures'.status = "ok"
          /\ userFeatures'.status = "ok"
          /\ targetFeatures' = AnalyzeAudio(targetAudio', sampleRate')
          /\ userFeatures' = AnalyzeAudio(userAudio', sampleRate')]_vars

\* a transformAndAnalyze call that was suspended ends in this step without
\* compareProsody having run: its catch block ran
FailedNow ==
    /\ \E f \in Flows : pc[f] # "idle" /\ pc'[f] = "idle"
    /\ ~ComparedNow

\* a suspended call goes on in this step without reaching its end
FlowStep == \E f \in Flows : pc'[f] \notin {pc[f], "idle"}

\* C28: a transformAndAnalyze call that fails in speechToSpeech or in one of
\* the two analyses has changed neither sessionStats nor the current screen
\* nor the displayed results, in the failing step or in any step it took
\* before, and leaves the analyze button enabled with its original label
C28_FailureLeavesNoTrace ==
    [][/\ FailedNow =>
            /\ sessionStats' = sessionStats
            /\ attemptLog' = attemptLog
            /\ screen' = screen
            /\ displayed' = displayed
            /\ analyzeEnabled'
            /\ analyzeLabel' = "Transform & Analyze"
       /\ FlowStep =>
            /\ sessionStats' = sessionStats
            /\ screen' = screen
            /\ displayed' = displayed]_vars

\* the analysis of the transformed audio has failed after the transformation
\* and the analysis of the recording went through: nothing is scored or shown
\* and the button stands enabled under its original label
C28_Witness ==
    /\ pc = [f \in Flows |-> "idle"]
    /\ targetAudio = Undecodable
    /\ userFeatures.status = "ok"
    /\ sessionStats = NoStats
    /\ displayed = NoResult
    /\ screen = "practice"
    /\ analyzeEnabled
    /\ analyzeLabel = "Transform & Analyze"

\* C29: the analyze button is enabled only while userRecordingBlob holds a
\* recording
C29_EnabledOnlyWithRecording ==
    analyzeEnabled => userAudio \in UserClips

\* the largest of the scores, 0 when there is none; NaN when a NaN among
\* them leaves no largest one
BestOf(log) ==
    LET tops == {b \in {log[i] : i \in 1..Len(log)} : \A i \in 1..Len(log) : Leq(log[i], b)}
    IN  IF log = <<>> THEN R(0)
        ELSE IF tops = {} THEN NaN
        ELSE CHOOSE b \in tops : TRUE

\* C27: attempts is the number of completed analyses, totalScore the sum of
\* their overall scores, bestScore their maximum (0 before the first one),
\* bestScore <= totalScore <= attempts * bestScore, and getSessionStats
\* reports averageScore = totalScore / attempts, or 0 when attempts is 0
C27_SessionStats ==
    /\ sessionStats.attempts = Len(attemptLog)
    /\ sessionStats.totalScore = Sum(attemptLog)
    /\ sessionStats.bestScore = BestOf(attemptLog)
    /\ Leq(sessionStats.bestScore, sessionStats.totalScore)
    /\ Leq(sessionStats.totalScore, Mul(R(sessionStats.attempts), sessionStats.bestScore))
    /\ GetSessionStats(sessionStats).averageScore =
           IF Len(attemptLog) = 0 THEN R(0) ELSE Div(Sum(attemptLog), R(Len(attemptLog)))

---------------------------------------------------------------------------
(* Properties of compareProsody (checked under SpecCompare).               *)

Compared == scores.status = "ok"

\* C8: the duration score is the shorter duration over the longer one; it
\* is unchanged when the bundles are swapped, lies in (0, 1] for positive
\* durations, and is 0.5 for 2.0 s against 4.0 s
C8_DurationScore ==
    Compared =>
        LET a == targetFeatures.duration
            b == userFeatures.duration
        IN  /\ scores.duration = (IF Less(a, b) THEN Div(a, b) ELSE Div(b, a))
            /\ scores.duration = CompareProsody(userFeatures, targetFeatures).duration
            /\ (Less(R(0), a) /\ Less(R(0), b))
                   => (Less(R(0), scores.duration) /\ Leq(scores.duration, R(1)))
            /\ ({a, b} = {R(2), R(4)}) => scores.duration = <<1, 2>>

\* a 2.0 s target against a 4.0 s user recording
C8_Witness ==
    /\ Compared
    /\ targetFeatures.duration = R(2)
    /\ userFeatures.duration = R(4)
    /\ scores.duration = <<1, 2>>

Dimensions(sc) ==
    <<sc.f0, sc.formants, sc.intensity, sc.speakingRate, sc.pitchRange, sc.duration>>

\* C9: overall = 0.25 f0 + 0.20 formants + 0.15 intensity + 0.15 speakingRate
\* + 0.15 pitchRange + 0.10 duration; the weights sum to 1, and overall lies
\* between the smallest and the largest of the six dimension scores
C9_OverallIsWeightedSum ==
    Compared =>
        /\ scores.overall =
               Sum(<<Mul(<<25, 100>>, scores.f0), Mul(<<20, 100>>, scores.formants),
                     Mul(<<15, 100>>, scores.intensity),
                     Mul(<<15, 100>>, scores.speakingRate),
                     Mul(<<15, 100>>, scores.pitchRange),
                     Mul(<<10, 100>>, scores.duration)>>)
        /\ Sum(<<Weights.f0, Weights.formants, Weights.intensity, Weights.speakingRate,
                 Weights.pitchRange, Weights.duration>>) = R(1)
        /\ Leq(MathMin(Dimensions(scores)), scores.overall)
        /\ Leq(scores.overall, MathMax(Dimensions(scores)))

\* a score set whose overall lies strictly between its extremes
C9_Witness ==
    /\ Compared
    /\ Less(MathMin(Dimensions(scores)), scores.overall)
    /\ Less(scores.overall, MathMax(Dimensions(scores)))
    /\ scores.f0 # scores.duration

Span(pitchRange) == Sub(pitchRange.max, pitchRange.min)

\* C13: when both bundles carry a pitchRange the pitchRange score is
\* max(0, 1 - |targetSpan - userSpan| / 100) with span = max - min; when
\* either bundle lacks one it is the neutral 0.5
C13_PitchRangeScore ==
    Compared =>
        LET t == targetFeatures.pitchRange
            u == userFeatures.pitchRange
        IN  IF t.present /\ u.present
            THEN LET gap == Div(MathAbs(Sub(Span(t), Span(u))), R(100))
                 IN  scores.pitchRange = (IF Less(R(1), gap) THEN R(0) ELSE Sub(R(1), gap))
            ELSE scores.pitchRange = <<1, 2>>

\* two voiced bundles whose spans differ by more than 100 Hz
C13_Witness ==
    /\ Compared
    /\ targetFeatures.pitchRange.present
    /\ userFeatures.pitchRange.present
    /\ Less(R(100), MathAbs(Sub(Span(targetFeatures.pitchRange),
                                Span(userFeatures.pitchRange))))
    /\ scores.pitchRange = R(0)

\* F3 tracks a bundle may carry instead of its own
F3Tracks == {<<R(2500), R(2600), R(0)>>, <<R(3000), R(0), R(3100)>>}

WithF3(features, track) == [features EXCEPT !.formants.f3 = FormantSeries(track)]

\* the state right after the first compareProsody call on a pair of bundles
FirstCompared == Compared /\ Len(scoreSetIds) = 1 /\ feedback = NoFeedback

\* C14: the formants score is the average of the clamped F1 and F2 mean
\* terms, and bundles that differ only in their F3 data give the same
\* score set
C14_FormantsIgnoreF3 ==
    FirstCompared =>
        LET t == targetFeatures.formants
            u == userFeatures.formants
            f1Term == Sub(R(1), Min2(R(1), Div(MathAbs(Sub(t.f1.mean, u.f1.mean)), R(500))))
            f2Term == Sub(R(1), Min2(R(1), Div(MathAbs(Sub(t.f2.mean, u.f2.mean)), R(800))))
        IN  /\ scores.formants = Div(Add(f1Term, f2Term), R(2))
            /\ \A x \in F3Tracks, y \in F3Tracks :
                   /\ CompareProsody(WithF3(targetFeatures, x), userFeatures) = scores
                   /\ CompareProsody(WithF3(targetFeatures, x), WithF3(userFeatures, y))
                          = scores

\* bundles whose F1 and F2 means differ, compared once
C14_Witness ==
    /\ FirstCompared
    /\ targetFeatures.formants.f1.mean # userFeatures.formants.f1.mean
    /\ targetFeatures.formants.f2.mean # userFeatures.formants.f2.mean
    /\ Less(R(0), scores.formants)
    /\ Less(scores.formants, R(1))

(* Properties of generateFeedback (checked under SpecCompare).             *)

GaveFeedback == Compared /\ feedback # NoFeedback

\* the category of a message, in the order the categories are listed
Category(message) ==
    CASE message \in {PitchLowMsg, PitchHighMsg} -> 1
      [] message = RangeNarrowMsg -> 2
      [] message = ResonanceMsg -> 3
      [] message \in {RateSlowMsg, RateFastMsg} -> 4
      [] message = StressMsg -> 5
      [] message = IntonationMsg -> 6
      [] OTHER -> 0

Below(score) == Less(score, <<6, 10>>)

HasCategory(messages, categories) ==
    \E i \in 1..Len(messages) : Category(messages[i]) \in categories

\* C15: the messages of one output are in the order pitch level, pitch
\* range too narrow, resonance, rate, stress pattern, intonation pattern,
\* at most one of each; the affirming message only ever stands alone
C15_FeedbackOrder ==
    GaveFeedback =>
        \/ feedback = <<AffirmMsg>>
        \/ /\ \A i \in 1..Len(feedback) : Category(feedback[i]) \in 1..6
           /\ \A i \in 1..Len(feedback), j \in 1..Len(feedback) :
                  i < j => Category(feedback[i]) < Category(feedback[j])

\* an output with a message of every category
C15_Witness ==
    /\ GaveFeedback
    /\ Len(feedback) = 6
    /\ \A c \in 1..6 : HasCategory(feedback, {c})

\* C16: when none of the f0, formants, speakingRate, intensity and
\* pitchRange scores is below 0.6 the output is the affirming message alone
C16_AffirmWhenNothingBelow ==
    (/\ GaveFeedback
     /\ ~Below(scores.f0)
     /\ ~Below(scores.formants)
     /\ ~Below(scores.speakingRate)
     /\ ~Below(scores.intensity)
     /\ ~Below(scores.pitchRange))
        => feedback = <<AffirmMsg>>

\* bundles that differ and still score 0.6 or more in every checked dimension
C16_Witness ==
    /\ GaveFeedback
    /\ targetFeatures # userFeatures
    /\ \A d \in {scores.f0, scores.formants, scores.speakingRate, scores.intensity,
                  scores.pitchRange} : ~Below(d)
    /\ feedback = <<AffirmMsg>>

\* C17: each of the five checked dimensions whose score is below 0.6 has
\* at least one coaching message of its own in the output
C17_EveryLowDimensionCoached ==
    GaveFeedback =>
        /\ Below(scores.f0) => HasCategory(feedback, {1, 2})
        /\ Below(scores.formants) => HasCategory(feedback, {3})
        /\ Below(scores.speakingRate) => HasCategory(feedback, {4})
        /\ Below(scores.intensity) => HasCategory(feedback, {5})
        /\ Below(scores.pitchRange) => HasCategory(feedback, {6})

\* C26: generateFeedback returns between one and six messages, no message
\* twice; the affirming message is never accompanied by another message,
\* and the 'higher pitch' and 'lower pitch' messages never come together
C26_FeedbackShape ==
    GaveFeedback =>
        LET given == {feedback[i] : i \in 1..Len(feedback)}
        IN  /\ Len(feedback) \in 1..6
            /\ Cardinality(given) = Len(feedback)
            /\ AffirmMsg \in given => Len(feedback) = 1
            /\ ~({PitchLowMsg, PitchHighMsg} \subseteq given)

\* several coaching messages, one of them about the direction of the pitch
C26_Witness ==
    /\ GaveFeedback
    /\ Len(feedback) \in 2..5
    /\ \E i \in 1..Len(feedback) : feedback[i] = PitchHighMsg
    /\ \A i \in 1..Len(feedback) : feedback[i] # AffirmMsg

---------------------------------------------------------------------------
(* Properties of the analysis flow (checked under Spec).                   *)

ScoreFields(sc) ==
    <<sc.f0, sc.formants, sc.intensity, sc.speakingRate, sc.pitchRange, sc.duration,
      sc.overall>>

AllZero(samples) == \A i \in 1..Len(samples) : samples[i] = 0

HasVoicedFrame(features) == Positive(features.f0.values) # <<>>

\* C1: for two bundles analysed from non-empty buffers, every field of the
\* score set (f0, formants, intensity, speakingRate, pitchRange, duration,
\* overall) lies in [0, 1]
C1_ScoresInUnit ==
    (Compared /\ Len(targetAudio.samples) > 0 /\ Len(userAudio.samples) > 0)
        => \A k \in 1..7 : InUnit(ScoreFields(scores)[k])

\* a voiced and a silent recording compared: the formant clamp is reached
\* and the overall score is strictly inside the interval
C1_Witness ==
    /\ Compared
    /\ Len(targetAudio.samples) > 0
    /\ HasVoicedFrame(targetFeatures)
    /\ AllZero(userAudio.samples) /\ Len(userAudio.samples) > 0
    /\ scores.formants = R(0)
    /\ Less(R(0), scores.overall)
    /\ Less(scores.overall, R(1))

\* C2 as stated: whatever bundle analyzeAudio produced, comparing it with
\* itself gives overall >= 0.95
C2_AnySelfComparison ==
    (Compared /\ targetFeatures = userFeatures) => Leq(<<19, 20>>, scores.overall)

\* C2: a bundle with at least one voiced frame, compared with itself, gives
\* overall >= 0.95
C2_VoicedSelfComparison ==
    (Compared /\ targetFeatures = userFeatures /\ HasVoicedFrame(targetFeatures))
        => Leq(<<19, 20>>, scores.overall)

\* a partly voiced recording compared with itself
C2_Witness ==
    /\ Compared
    /\ targetFeatures = userFeatures
    /\ HasVoicedFrame(targetFeatures)
    /\ \E k \in 1..Len(targetFeatures.f0.values) : targetFeatures.f0.values[k] = R(0)
    /\ scores.overall = R(1)

Analysed(audio, features) == features # NoResult /\ audio # NoAudio

Unusable(audio) ==
    audio.status = "undecodable" \/ (audio.status = "decoded" /\ Len(audio.samples) = 0)

\* C3: analyzeAudio fails on a buffer that is empty or cannot be decoded, and
\* never returns a feature bundle for it
C3_UnusableAudioRejected ==
    /\ (Analysed(targetAudio, targetFeatures) /\ Unusable(targetAudio))
           => targetFeatures = Failed
    /\ (Analysed(userAudio, userFeatures) /\ Unusable(userAudio))
           => userFeatures = Failed

\* C4: when the voiced-only F0 sequence of either bundle is empty, the
\* comparison completes with f0 score 0
C4_NoVoicedFramesScoreZero ==
    (Compared /\ (~HasVoicedFrame(targetFeatures) \/ ~HasVoicedFrame(userFeatures)))
        => scores.f0 = R(0)

\* a voiced target compared with an unvoiced user recording, and scored
C4_Witness ==
    /\ Compared
    /\ HasVoicedFrame(targetFeatures)
    /\ ~HasVoicedFrame(userFeatures)
    /\ Len(userFeatures.f0.values) > 0
    /\ scores.f0 = R(0)

SilentAnalysis(audio, features) ==
    (features.status = "ok" /\ AllZero(audio.samples))
        => /\ \A k \in 1..Len(features.f0.values) : features.f0.values[k] = R(0)
           /\ features.pitchRange = NoPitchRange

\* C5: an all-zero buffer is analysed into an F0 contour whose every frame
\* is 0 and a bundle without pitch range
C5_SilenceIsUnvoiced ==
    /\ SilentAnalysis(targetAudio, targetFeatures)
    /\ SilentAnalysis(userAudio, userFeatures)

\* a silent buffer of several frames, analysed
C5_Witness ==
    /\ targetFeatures.status = "ok"
    /\ AllZero(targetAudio.samples)
    /\ Len(targetFeatures.f0.values) >= 2
    /\ targetFeatures.pitchRange = NoPitchRange

SameGrid(features) ==
    /\ Len(features.formants.f1.values) = Len(features.f0.values)
    /\ Len(features.formants.f2.values) = Len(features.f0.values)
    /\ Len(features.formants.f3.values) = Len(features.f0.values)
    /\ Len(features.intensity.values) = Len(features.f0.values)
    /\ Len(features.f0.times) = Len(features.f0.values)
    /\ features.formants.times = features.f0.times
    /\ features.intensity.times = features.f0.times

\* frame k (from 0) starts at k * 10 ms
TenMsGrid(features) ==
    \A k \in 1..Len(features.f0.times) : features.f0.times[k] = Norm(k - 1, 100)

\* frame k (from 0) starts at k * floor(sampleRate * 0.010) / sampleRate
HopGrid(features, sr) ==
    \A k \in 1..Len(features.f0.times) :
        features.f0.times[k] = Norm((k - 1) * ((sr * 10) \div 1000), sr)

FullFrameCount(length, sr) ==
    IF length < FrameSizeOf(sr) THEN 0
    ELSE ((length - FrameSizeOf(sr)) \div HopSizeOf(sr)) + 1

\* C11: every hop-aligned start i with i + frameSize <= L gives one frame, so
\* a buffer of L samples is cut into as many frames as it has such starts
C11_EveryFullFrameKept ==
    /\ targetFeatures.status = "ok"
           => Len(targetFeatures.f0.values)
                  = FullFrameCount(Len(targetAudio.samples), sampleRate)
    /\ userFeatures.status = "ok"
           => Len(userFeatures.f0.values)
                  = FullFrameCount(Len(userAudio.samples), sampleRate)

VoicedFrames(features) ==
    {k \in 1..Len(features.f0.values) : features.f0.values[k] # R(0)}

PitchRangeFromVoiced(features) ==
    LET v == features.f0.values
        voiced == VoicedFrames(features)
        r == features.pitchRange
    IN  IF voiced = {} THEN r = NoPitchRange
        ELSE /\ r.present
             /\ \E k \in voiced : r.min = v[k]
             /\ \A k \in voiced : Leq(r.min, v[k])
             /\ \E k \in voiced : r.max = v[k]
             /\ \A k \in voiced : Leq(v[k], r.max)
             /\ Leq(r.min, r.mean)
             /\ Leq(r.mean, r.max)
             /\ Leq(R(0), r.variance)

ScannedLags(sr) == (sr \div MaxF0)..((sr \div MinF0) - 2)

UnvoicedIffNoLagBelow(audio, features, sr) ==
    \A k \in 1..Len(features.f0.values) :
        LET start == (k - 1) * HopSizeOf(sr)
            cmndf == YinCmndf(Slice(audio.samples, start, start + FrameSizeOf(sr)),
                              sr \div MinF0)
        IN  (features.f0.values[k] = R(0))
                <=> (\A t \in ScannedLags(sr) : ~Less(cmndf[t], YinThreshold))

\* C20: a frame is reported unvoiced (0) exactly when no scanned lag has a
\* CMNDF value below the threshold
C20_UnvoicedIffNoLagBelow ==
    /\ targetFeatures.status = "ok"
           => UnvoicedIffNoLagBelow(targetAudio, targetFeatures, sampleRate)
    /\ userFeatures.status = "ok"
           => UnvoicedIffNoLagBelow(userAudio, userFeatures, sampleRate)

\* every voiced value of a bundle lies in the search range, and its lag
\* sampleRate / value is at most one sample from the lag the search selected
VoicedWithinSearchRange(audio, features, sr) ==
    \A k \in 1..Len(features.f0.values) :
        LET value == features.f0.values[k]
            start == (k - 1) * HopSizeOf(sr)
            cmndf == YinCmndf(Slice(audio.samples, start, start + FrameSizeOf(sr)),
                              sr \div MinF0)
            tau == YinSearch(cmndf, sr \div MaxF0, sr \div MinF0)
        IN  value # R(0) =>
                /\ IsFinite(value)
                /\ Leq(R(MinF0), value)
                /\ Leq(value, R(MaxF0))
                /\ Leq(MathAbs(Sub(Div(R(sr), value), R(tau))), R(1))

\* C21: every nonzero F0 value is finite, positive and within [50, 400] Hz,
\* and the refined lag is at most one sample away from the selected lag
C21_F0WithinSearchRange ==
    /\ targetFeatures.status = "ok"
           => VoicedWithinSearchRange(targetAudio, targetFeatures, sampleRate)
    /\ userFeatures.status = "ok"
           => VoicedWithinSearchRange(userAudio, userFeatures, sampleRate)

\* the roots of frame k that qualify as formants
FormantCandidates(audio, k, sr) ==
    LET start == (k - 1) * HopSizeOf(sr)
        roots == LpcRoots(audio, Slice(audio.samples, start, start + FrameSizeOf(sr)), k)
    IN  {r \in 1..Len(roots) :
            /\ roots[r].imagPositive
            /\ Less(R(200), roots[r].freq)
            /\ Less(roots[r].freq, R(5000))
            /\ Less(roots[r].bandwidth, R(500))}

FormantsAreLowestCandidates(audio, features, sr) ==
    \A k \in 1..Len(features.formants.f1.values) :
        LET start == (k - 1) * HopSizeOf(sr)
            roots == LpcRoots(audio, Slice(audio.samples, start, start + FrameSizeOf(sr)), k)
            candidates == FormantCandidates(audio, k, sr)
            slots == <<features.formants.f1.values[k], features.formants.f2.values[k],
                       features.formants.f3.values[k]>>
        IN  \A j \in 1..3 :
                /\ (slots[j] = R(0)) <=> (Cardinality(candidates) < j)
                /\ slots[j] # R(0) =>
                       /\ \E r \in candidates : roots[r].freq = slots[j]
                       /\ Cardinality({r \in candidates : Less(roots[r].freq, slots[j])})
                              <= j - 1
                       /\ Cardinality({r \in candidates : Leq(roots[r].freq, slots[j])})
                              >= j
                /\ (j < 3 /\ slots[j] # R(0) /\ slots[j + 1] # R(0))
                       => Leq(slots[j], slots[j + 1])
                /\ (j < 3 /\ slots[j] = R(0)) => slots[j + 1] = R(0)

\* C22: in every frame each nonzero F1, F2, F3 is the frequency of a root
\* with positive imaginary part, frequency in (200, 5000) Hz and bandwidth
\* below 500 Hz; the nonzero values are the three lowest candidates in
\* ascending order; a slot is 0 exactly when there are fewer candidates
C22_FormantsAreLowestCandidates ==
    /\ targetFeatures.status = "ok"
           => FormantsAreLowestCandidates(targetAudio, targetFeatures, sampleRate)
    /\ userFeatures.status = "ok"
           => FormantsAreLowestCandidates(userAudio, userFeatures, sampleRate)

\* a recording analysed into a frame with more than three candidates, a
\* frame with two and a frame with one
C22_Witness ==
    /\ userFeatures.status = "ok"
    /\ \E k \in 1..Len(userFeatures.formants.f1.values) :
           Cardinality(FormantCandidates(userAudio, k, sampleRate)) > 3
    /\ \E k \in 1..Len(userFeatures.formants.f1.values) :
           /\ Cardinality(FormantCandidates(userAudio, k, sampleRate)) = 2
           /\ userFeatures.formants.f3.values[k] = R(0)
           /\ userFeatures.formants.f2.values[k] # R(0)
    /\ \E k \in 1..Len(userFeatures.formants.f1.values) :
           Cardinality(FormantCandidates(userAudio, k, sampleRate)) = 1

---------------------------------------------------------------------------
(* Properties of dtwSimilarity (checked under SpecDtw).                    *)

DtwDone == similarity # NoNumber

IsConstant(s) == \A i \in 1..Len(s) : s[i] = s[1]

\* C6: for any two non-empty numeric sequences dtwSimilarity returns a value
\* in [0, 1]
C6_SimilarityInUnit ==
    (DtwDone /\ Len(seq1) > 0 /\ Len(seq2) > 0) => InUnit(similarity)

\* two different non-empty sequences, one of them beyond the cap, scored
\* strictly between 0 and 1
C6_Witness ==
    /\ DtwDone
    /\ Len(seq1) > ResampleCap
    /\ Len(seq2) > 0
    /\ Less(R(0), similarity)
    /\ Less(similarity, R(1))

\* C7: for a non-constant sequence of length >= 2, also one longer than the
\* resampling cap, dtwSimilarity(seq, seq) is exactly 1
C7_SelfSimilarityIsOne ==
    (DtwDone /\ seq1 = seq2 /\ Len(seq1) >= 2 /\ ~IsConstant(seq1))
        => similarity = R(1)

\* a non-constant sequence longer than the cap, compared with itself
C7_Witness ==
    /\ DtwDone
    /\ seq1 = seq2
    /\ Len(seq1) > ResampleCap
    /\ ~IsConstant(seq1)
    /\ similarity = R(1)

\* the monotone warping paths from cell (1, 1) to cell (i, j): each step
\* advances the row, the column or both by one
RECURSIVE WarpingPaths(_, _)
WarpingPaths(i, j) ==
    IF i < 1 \/ j < 1 THEN {}
    ELSE IF i = 1 /\ j = 1 THEN {<<<<1, 1>>>>}
    ELSE {Append(path, <<i, j>>) :
             path \in WarpingPaths(i - 1, j) \cup WarpingPaths(i, j - 1)
                          \cup WarpingPaths(i - 1, j - 1)}

\* the sum of absolute differences along a path
PathCost(a, b, path) ==
    Sum([k \in 1..Len(path) |-> MathAbs(Sub(a[path[k][1]], b[path[k][2]]))])

\* sequences short enough to be neither resampled nor beyond enumeration
Short(s) == Len(s) > 0 /\ Len(s) <= MaxSeqLen

\* C23: the accumulated cost dtw[n][m] is the minimum, over all monotone
\* warping paths from (1, 1) to (n, m), of the sum of absolute differences
\* of the normalized sequences along the path
C23_CostIsCheapestPath ==
    (DtwDone /\ Short(seq1) /\ Short(seq2)) =>
        LET a == Normalize(seq1)
            b == Normalize(seq2)
            paths == WarpingPaths(Len(seq1), Len(seq2))
            cost == DtwCost(a, b)
            longer == IF Len(seq1) > Len(seq2) THEN Len(seq1) ELSE Len(seq2)
        IN  /\ \E path \in paths : PathCost(a, b, path) = cost
            /\ \A path \in paths : Leq(cost, PathCost(a, b, path))
            /\ similarity = Sub(R(1), Min2(R(1), Div(cost, R(longer))))

\* sequences of different lengths whose cheapest path costs something and
\* is not the only path
C23_Witness ==
    /\ DtwDone
    /\ Len(seq1) = 2
    /\ Len(seq2) = 3
    /\ Less(R(0), similarity)
    /\ Less(similarity, R(1))
    /\ \E path \in WarpingPaths(2, 3) :
           Less(DtwCost(Normalize(seq1), Normalize(seq2)),
                PathCost(Normalize(seq1), Normalize(seq2), path))

\* a * s + b, element by element
Rescaled(s, a, b) == Tuple([k \in 1..Len(s) |-> Add(Mul(a, s[k]), b)])

\* pairs (a, b) with a > 0
Rescalings == {<<R(2), R(0)>>, <<<<1, 3>>, R(-5)>>}

============================================================================
